---- MODULE Spec2Model ----
(***************************************************************************)
(* Interaction engine of SuperMario_Python (src/app.py, src/player.py):    *)
(* the tick driven by MarioApp.step, the collision handlers of MarioApp,   *)
(* the entity behaviours (Switch, Bounce, Mushroom, Gang, Star, Flower,    *)
(* bullets) and the threading.Timer callbacks they start.                  *)
(*                                                                         *)
(* Time is counted in tenths of a second, the largest unit in which the    *)
(* three Timer delays of the source (10 s, 0.5 s, 0.4 s) are integers.     *)
(* Positions are pixel coordinates <<x, y>>.                               *)
(***************************************************************************)
EXTENDS Integers, Sequences, FiniteSets, TLC

\* ------------------------------------------------------------------------
\* Bounds of the model
\* ------------------------------------------------------------------------

\* Timers that may be pending at once (threading.Timer objects are unbounded).
MaxTimers == 3

\* Bullets that may be in the world at once (shoot() creates them freely).
MaxBullets == 2

\* Health the player starts with (the configuration file chooses it).
MaxHealth == 2

\* Damaging contacts still dispatched in a tick after health reached 0.
MaxOverkill == 1

\* ------------------------------------------------------------------------
\* Program constants
\* ------------------------------------------------------------------------

BLOCK_SIZE == 16

\* Timer(10, ...) of Switch.on_hit, in tenths of a second.
SwitchDelay == 100

\* Timer(0.5, ...) of Bounce.on_hit, in tenths of a second.
BounceDelay == 5

\* Timer(0.4, ...) of Mushroom.on_hit and Gang.on_hit, in tenths of a second.
SquishDelay == 4

\* Timer(10, ...) of Star.collect, in tenths of a second.
StarDelay == 100

\* world.get_things_in_range(x, y, 60) of Switch.on_hit.
SwitchRadius == 60

MushroomTempo == -30

GangTempo == -80

\* len(score_records[self._level]) < 10 of MarioApp.update_score
TopScores == 10

\* self._max_health of MarioApp.__init__ before the configuration is loaded
DefaultMaxHealth == 5

\* ------------------------------------------------------------------------
\* The level: entities created by create_block / create_mob / create_item
\* ------------------------------------------------------------------------

Directions == {"A", "B", "L", "R"}

NoPos == <<-1, -1>>

BlockIds == {"sw", "sw2", "bnc", "brickNear", "brickAlso", "brickFar", "cube", "flag1", "tunnel1"}

\* Block.get_id(): the _id of Switch and Bounce, the block_id of Block(block_id).
BlockKind(b) ==
    CASE b \in {"sw", "sw2"} -> "switches"
      [] b = "bnc" -> "bounce"
      [] b = "cube" -> "cube"
      [] b = "flag1" -> "flag"
      [] b = "tunnel1" -> "tunnel"
      [] OTHER -> "brick"

\* The class create_block constructs for a block id: Bounce, Switch, or
\* Block(block_id) for every other id of these levels, "flag" and "tunnel"
\* included (Flag and Tunnel are constructed nowhere).
BlockClass(b) ==
    CASE BlockKind(b) = "bounce" -> "Bounce"
      [] BlockKind(b) = "switches" -> "Switch"
      [] OTHER -> "Block"

\* Grid cell of each block in the level file; create_block multiplies by BLOCK_SIZE.
BlockCell(b) ==
    CASE b = "sw" -> <<5, 5>>
      [] b = "sw2" -> <<8, 5>>
      [] b = "cube" -> <<4, 5>>
      [] b = "brickNear" -> <<7, 5>>
      [] b = "brickAlso" -> <<4, 3>>
      [] b = "brickFar" -> <<10, 5>>
      [] b = "bnc" -> <<1, 5>>
      [] b = "flag1" -> <<14, 5>>
      [] b = "tunnel1" -> <<12, 5>>

LevelPos(b) == <<BlockCell(b)[1] * BLOCK_SIZE, BlockCell(b)[2] * BLOCK_SIZE>>

\* The order in which the world enumerates its blocks.
BlockOrder == <<"sw", "sw2", "bnc", "brickNear", "brickAlso", "brickFar", "cube", "flag1", "tunnel1">>

LevelMobs == {"m1", "m2", "g1", "g2", "c1"}

BulletIds == {"k" \o ToString(i) : i \in 1..MaxBullets}

\* The fireball a cloud drops.
FireballIds == {"f1"}

MobIds == LevelMobs \cup BulletIds \cup FireballIds

LevelMobKind(m) ==
    CASE m \in {"g1", "g2"} -> "gang"
      [] m = "c1" -> "cloud"
      [] OTHER -> "mushroom"

\* tempo= argument of Mushroom.__init__, Gang.__init__, BulletLeft/Right.__init__.
InitTempo(kind) ==
    CASE kind = "mushroom" -> MushroomTempo
      [] kind = "gang" -> GangTempo
      [] kind = "bullet_l" -> -300
      [] kind = "bullet_r" -> 300
      [] OTHER -> 0

ItemIds == {"star1", "star2", "flower1", "coin1"}

ItemKind(i) ==
    CASE i \in {"star1", "star2"} -> "star"
      [] i = "flower1" -> "flower"
      [] OTHER -> "coin"

\* Entity._type category of a thing.
Category(t) ==
    IF t \in BlockIds THEN "block"
    ELSE IF t \in MobIds THEN "mob"
    ELSE IF t \in ItemIds THEN "item"
    ELSE "player"

\* The level files of the configuration and the goal each one names;
\* get_next_level() is self._config[self._level]['goal'].
LevelNames == {"level1.txt", "level2.txt"}

Goal(name) == IF name = "level1.txt" THEN "level2.txt" ELSE "END"

\* ------------------------------------------------------------------------
\* State
\* ------------------------------------------------------------------------

VARIABLES
    config,    \* the lines of the file chosen as the configuration
    disk,      \* level file name -> what the file contains
    level,     \* the level file the world was loaded from (file) and what it
               \* contains: its blocks, mobs and items
    levelName, \* MarioApp._level
    scores,    \* high_score.txt: level file name -> the record lines under
               \* its heading, each line the sequence of its characters
    typed,     \* what the player types into the name dialog
    keyDown,   \* the player holds the down key
    ret,       \* how the handler of the last step ended: the value it returned
               \* or the exception that left it
    pc,        \* "start": before MarioApp.__init__; "idle": between two
               \* MarioApp.step calls; "tick": inside one; "closed": the window
               \* was destroyed; "crashed": an exception left MarioApp.__init__
    blockIn,   \* block -> it is in the world
    blockPos,  \* block -> its position (NoPos while removed)
    active,    \* block -> Switch._active / Bounce._active
    mobIn,     \* mob -> it is in the world
    mobKind,   \* mob -> Mob.get_id()
    tempo,     \* mob -> Mob.get_tempo()
    squished,  \* mob -> Mushroom._squished / Gang._squished
    mobVel,    \* mob -> velocity set by the code
    itemIn,    \* item -> it is in the world
    player,    \* the Player's fields
    timers,    \* started threading.Timer objects that have not run yet
    log        \* the calls made by the last step, in order

vars == <<config, disk, level, levelName, scores, typed, keyDown, ret, pc, blockIn, blockPos, active,
          mobIn, mobKind, tempo, squished, mobVel, itemIn, player, timers, log>>

\* The mutable world and player as one value, so that handlers compose.
Cur ==
    [blockIn |-> blockIn, blockPos |-> blockPos, active |-> active,
     mobIn |-> mobIn, mobKind |-> mobKind, tempo |-> tempo,
     squished |-> squished, mobVel |-> mobVel, itemIn |-> itemIn,
     player |-> player, timers |-> timers, log |-> <<>>,
     disk |-> disk, level |-> level, levelName |-> levelName, scores |-> scores,
     typed |-> typed,
     ret |-> "none", destroyed |-> FALSE]

Becomes(w) ==
    /\ blockIn' = w.blockIn
    /\ blockPos' = w.blockPos
    /\ active' = w.active
    /\ mobIn' = w.mobIn
    /\ mobKind' = w.mobKind
    /\ tempo' = w.tempo
    /\ squished' = w.squished
    /\ mobVel' = w.mobVel
    /\ itemIn' = w.itemIn
    /\ player' = w.player
    /\ timers' = w.timers
    /\ log' = w.log
    /\ level' = w.level
    /\ levelName' = w.levelName
    /\ scores' = w.scores
    /\ ret' = w.ret

\* ------------------------------------------------------------------------
\* The world and the timers the handlers call into
\* ------------------------------------------------------------------------

\* An entry of the log: a call made by the step (op, its argument arg, and
\* whether the world was in the state the call needs), or, as the first entry,
\* the handler that ran (op, the two things in contact, the contact direction).
Call(op, arg, ok) == [op |-> op, arg |-> arg, other |-> "", dir |-> "", ok |-> ok]

Logged(w, op, arg, ok) == [w EXCEPT !.log = Append(@, Call(op, arg, ok))]

Entered(w, handler, thing, other, dir) ==
    [w EXCEPT !.log = <<[op |-> handler, arg |-> thing, other |-> other, dir |-> dir, ok |-> TRUE]>>]

\* World.remove_block(block); ok records whether the block was in the world.
remove_block(w, b) ==
    [Logged(w, "remove_block", b, w.blockIn[b]) EXCEPT
        !.blockIn[b] = FALSE, !.blockPos[b] = NoPos]

\* World.add_block(block, x, y); ok records whether the block was absent.
add_block(w, b, x, y) ==
    [Logged(w, "add_block", b, ~w.blockIn[b]) EXCEPT
        !.blockIn[b] = TRUE, !.blockPos[b] = <<x, y>>]

\* World.remove_mob(mob); ok records whether the mob was in the world.
remove_mob(w, m) ==
    [Logged(w, "remove_mob", m, w.mobIn[m]) EXCEPT !.mobIn[m] = FALSE]

\* World.remove_item(item); ok records whether the item was in the world.
remove_item(w, i) ==
    [Logged(w, "remove_item", i, w.itemIn[i]) EXCEPT !.itemIn[i] = FALSE]

\* World.add_mob(mob, x, y) of a newly constructed bullet.
add_mob(w, m, kind) ==
    [Logged(w, "add_mob", m, ~w.mobIn[m]) EXCEPT
        !.mobIn[m] = TRUE, !.mobKind[m] = kind, !.tempo[m] = InitTempo(kind),
        !.squished[m] = FALSE, !.mobVel[m] = <<0, 0>>]

\* player.set_velocity(v)
set_velocity(w, v) ==
    [Logged(w, "set_velocity", "player", TRUE) EXCEPT !.player.vel = v]

\* player.change_health(change); the health does not pass max_health
change_health(w, change) ==
    [w EXCEPT !.player.health = IF @ + change > MaxHealth THEN MaxHealth ELSE @ + change]

\* player.change_score(change)
change_score(w, change) == [w EXCEPT !.player.score = @ + change]

\* player.clear_score()
clear_score(w) == [w EXCEPT !.player.score = 0]

\* return value of a collision handler
Return(w, value) == [w EXCEPT !.ret = value]

\* raise exc: the statements that follow in the handler do not run
Raise(w, exc) == [w EXCEPT !.ret = exc]

\* An exception is on its way out of the handler.
Raised(w) == w.ret \notin {"none", "True", "False"}

\* player.is_dead()
is_dead(w) == w.player.health <= 0

\* Timer(delay, fn, args).start(): fn is applied to target with flag / bricks
\* on a thread of its own once delay has passed.
Timer(w, delay, fn, target, flag, bricks) ==
    [Logged(w, "Timer", fn, TRUE) EXCEPT
        !.timers = Append(@, [fn |-> fn, target |-> target, flag |-> flag,
                              bricks |-> bricks, due |-> delay])]

Abs(n) == IF n < 0 THEN -n ELSE n

Max0(n) == IF n < 0 THEN 0 ELSE n

\* Distance (squared) from the point <<x, y>> to the square shape of a block.
ShapeDist2(w, b, x, y) ==
    LET dx == Max0(Abs(x - w.blockPos[b][1]) - BLOCK_SIZE \div 2)
        dy == Max0(Abs(y - w.blockPos[b][2]) - BLOCK_SIZE \div 2)
    IN dx * dx + dy * dy

\* World.get_things_in_range(x, y, max_distance): the things whose shape
\* overlaps the radius.  Mobs, items and the player move freely, so each one
\* present may be in range.
get_things_in_range(w, x, y, max_distance) ==
    {b \in BlockIds : w.blockIn[b] /\ ShapeDist2(w, b, x, y) <= max_distance * max_distance}
    \cup {m \in MobIds : w.mobIn[m]}
    \cup {i \in ItemIds : w.itemIn[i]}
    \cup {"player"}

\* Player.__init__ and the two setters MarioApp.__init__ calls on it
InitPlayer ==
    [health |-> MaxHealth, niubi |-> FALSE, duck |-> FALSE, shoot |-> FALSE,
     jumping |-> TRUE, vel |-> <<0, 0>>, score |-> 0]

\* Switch.__init__ sets _active True, Bounce.__init__ sets it False.
InitActive(b) == BlockKind(b) = "switches"

\* What load_world has read: the file and its content.
Loaded(file, lv) ==
    [file |-> file, blocks |-> lv.blocks, mobs |-> lv.mobs, items |-> lv.items]

\* MarioApp.reset_world(new_level): a newly built world with the player added
\* to it.  The Player object outlives the world; of the pending timers those
\* of the old world's things act on nothing in the new one, the player's stay.
\* load_world opens the file new_level: there is none of that name, it raises.
reset_world(w, new_level) ==
    IF new_level \notin DOMAIN w.disk
    THEN Raise(Logged(w, "reset_world", new_level, FALSE), "FileNotFoundError")
    ELSE
    LET lv == w.disk[new_level]
    IN [Logged(w, "reset_world", new_level, TRUE) EXCEPT
          !.level = Loaded(new_level, lv),
          !.blockIn = [b \in BlockIds |-> b \in lv.blocks],
          !.blockPos = [b \in BlockIds |-> IF b \in lv.blocks THEN LevelPos(b) ELSE NoPos],
          !.active = [b \in BlockIds |-> InitActive(b)],
          !.mobIn = [m \in MobIds |-> m \in lv.mobs],
          !.mobKind = [m \in MobIds |-> IF m \in LevelMobs THEN LevelMobKind(m) ELSE "bullet_r"],
          !.tempo = [m \in MobIds |-> IF m \in LevelMobs THEN InitTempo(LevelMobKind(m)) ELSE 0],
          !.squished = [m \in MobIds |-> FALSE],
          !.mobVel = [m \in MobIds |-> <<0, 0>>],
          !.itemIn = [i \in ItemIds |-> i \in lv.items],
          !.player.vel = <<0, 0>>,
          !.timers = SelectSeq(w.timers, LAMBDA t : t.target = "player")]

\* ------------------------------------------------------------------------
\* Switch
\* ------------------------------------------------------------------------

\* BrickList without the test of the block's kind
BrickList_AnyKind(w, things) ==
    LET hit == SelectSeq(BlockOrder, LAMBDA t : t \in things /\ Category(t) = "block")
    IN [k \in 1..Len(hit) |->
           [brick |-> hit[k], x |-> w.blockPos[hit[k]][1], y |-> w.blockPos[hit[k]][2]]]

\* The loop of Switch.on_hit over things: the bricks among them, each with the
\* position it has when it is removed.
BrickList(w, things) ==
    LET hit == SelectSeq(BlockOrder,
                   LAMBDA t : t \in things /\ Category(t) = "block" /\ BlockKind(t) = "brick")
    IN [k \in 1..Len(hit) |->
           [brick |-> hit[k], x |-> w.blockPos[hit[k]][1], y |-> w.blockPos[hit[k]][2]]]

RECURSIVE RemoveBricks(_, _)
RemoveBricks(w, brick_list) ==
    IF brick_list = <<>> THEN w
    ELSE RemoveBricks(remove_block(w, Head(brick_list).brick), Tail(brick_list))

\* Switch.on_hit that takes every brick of the level in its radius, in the
\* world or not
Switch_on_hit_AbsentBricksToo(w, b, dir) ==
    IF dir # "A" THEN w
    ELSE IF ~w.active[b] THEN w
    ELSE
        LET w1 == [w EXCEPT !.active[b] = FALSE]
            things == get_things_in_range(w1, w1.blockPos[b][1], w1.blockPos[b][2], SwitchRadius)
                      \cup {t \in w.level.blocks : BlockKind(t) = "brick"}
            brick_list == BrickList(w1, things)
            w2 == RemoveBricks(w1, brick_list)
            w3 == Timer(w2, SwitchDelay, "set_active", b, TRUE, <<>>)
        IN Timer(w3, SwitchDelay, "blocks_recover", b, TRUE, brick_list)

\* Switch.on_hit without the test of is_active()
Switch_on_hit_AlwaysActive(w, b, dir) ==
    IF dir # "A" THEN w
    ELSE
        LET w1 == [w EXCEPT !.active[b] = FALSE]
            things == get_things_in_range(w1, w1.blockPos[b][1], w1.blockPos[b][2], SwitchRadius)
            brick_list == BrickList(w1, things)
            w2 == RemoveBricks(w1, brick_list)
            w3 == Timer(w2, SwitchDelay, "set_active", b, TRUE, <<>>)
        IN Timer(w3, SwitchDelay, "blocks_recover", b, TRUE, brick_list)

\* Switch.on_hit(event, (world, player)), dir = get_collision_direction(player, self)
Switch_on_hit(w, b, dir) ==
    IF dir # "A" THEN w
    ELSE IF ~w.active[b] THEN w
    ELSE
        LET w1 == [w EXCEPT !.active[b] = FALSE]
            things == get_things_in_range(w1, w1.blockPos[b][1], w1.blockPos[b][2], SwitchRadius)
            brick_list == BrickList(w1, things)
            w2 == RemoveBricks(w1, brick_list)
            w3 == Timer(w2, SwitchDelay, "set_active", b, TRUE, <<>>)
        IN Timer(w3, SwitchDelay, "blocks_recover", b, TRUE, brick_list)

\* blocks_recover with the two coordinates exchanged
RECURSIVE blocks_recover_Swapped(_, _)
blocks_recover_Swapped(w, brick_list) ==
    IF brick_list = <<>> THEN w
    ELSE LET n == Head(brick_list)
         IN blocks_recover_Swapped(add_block(w, n.brick, n.y, n.x), Tail(brick_list))

\* Switch.blocks_recover(brick_list, world)
RECURSIVE blocks_recover(_, _)
blocks_recover(w, brick_list) ==
    IF brick_list = <<>> THEN w
    ELSE LET n == Head(brick_list)
         IN blocks_recover(add_block(w, n.brick, n.x, n.y), Tail(brick_list))

\* Switch.set_active / Bounce.set_active
set_active(w, b, flag) == [w EXCEPT !.active[b] = flag]

\* ------------------------------------------------------------------------
\* Bounce
\* ------------------------------------------------------------------------

\* Bounce.on_hit that starts no Timer
Bounce_on_hit_NoRevert(w, b, dir) ==
    IF dir = "A"
    THEN LET w1 == [w EXCEPT !.active[b] = TRUE]
         IN set_velocity(w1, <<0, -400>>)
    ELSE w

\* Bounce.on_hit(event, (world, player))
Bounce_on_hit(w, b, dir) ==
    IF dir = "A"
    THEN LET w1 == [w EXCEPT !.active[b] = TRUE]
             w2 == set_velocity(w1, <<0, -400>>)
         IN Timer(w2, BounceDelay, "set_active", b, FALSE, <<>>)
    ELSE w

\* Flag.on_hit(event, (world, player))
Flag_on_hit(w, b, dir) == IF dir = "A" THEN change_health(w, 1) ELSE w

\* block.on_hit(...) as dispatched on the block's class; Block.on_hit of a
\* plain block does nothing.
Block_on_hit(w, b, dir) ==
    CASE BlockClass(b) = "Switch" -> Switch_on_hit(w, b, dir)
      [] BlockClass(b) = "Bounce" -> Bounce_on_hit(w, b, dir)
      [] BlockClass(b) = "Flag" -> Flag_on_hit(w, b, dir)
      [] OTHER -> w

Digits == {"0", "1", "2", "3", "4", "5", "6", "7", "8", "9"}

DigitValue(c) == CHOOSE n \in 0..9 : ToString(n) = c

\* int(v) returns a number for a value of digits and raises ValueError for
\* the others.
IsInt(v) == v # <<>> /\ \A k \in 1..Len(v) : v[k] \in Digits

RECURSIVE IntOf(_)
IntOf(v) ==
    IF v = <<>> THEN 0
    ELSE IntOf(SubSeq(v, 1, Len(v) - 1)) * 10 + DigitValue(v[Len(v)])

\* str(n) of a score
RECURSIVE DigitsOf(_)
DigitsOf(n) == IF n < 10 THEN <<ToString(n)>> ELSE DigitsOf(n \div 10) \o <<ToString(n % 10)>>

\* ' : ', which stands between the name and the score of a record line
Sep == <<" ", ":", " ">>

\* s.split(' : '), field being the characters read since the last ' : '
RECURSIVE SplitFrom(_, _)
SplitFrom(s, field) ==
    IF s = <<>> THEN <<field>>
    ELSE IF Len(s) >= 3 /\ s[1] = " " /\ s[2] = ":" /\ s[3] = " "
    THEN <<field>> \o SplitFrom(SubSeq(s, 4, Len(s)), <<>>)
    ELSE SplitFrom(Tail(s), Append(field, s[1]))

Split(s) == SplitFrom(s, <<>>)

\* s.rstrip()
RECURSIVE RStrip(_)
RStrip(s) ==
    IF s # <<>> /\ s[Len(s)] = " " THEN RStrip(SubSeq(s, 1, Len(s) - 1)) ELSE s

\* '{} : {}\n'.format(name, value) of update_score, without the newline
RecordLine(name, value) == name \o Sep \o DigitsOf(value)

\* (record[0], int(record[1])) of read_score for the fields record of a line,
\* or the exception it raises
FieldsRead(record) ==
    IF Len(record) < 2 THEN [raised |-> "IndexError"]
    ELSE IF ~IsInt(record[2]) THEN [raised |-> "ValueError"]
    ELSE [raised |-> "none", name |-> record[1], score |-> IntOf(record[2])]

\* What read_score makes of a record line.  No record line that update_score
\* writes starts and ends with '**', so none is read as a heading.
ReadRecord(line) == FieldsRead(Split(RStrip(line)))

\* The records read from the lines under one heading
RECURSIVE ReadRecords(_)
ReadRecords(lines) ==
    IF lines = <<>> THEN <<>>
    ELSE <<ReadRecord(Head(lines))>> \o ReadRecords(Tail(lines))

\* MarioApp.read_score() on the file: heading -> the records under it
RECURSIVE ReadUnder(_, _)
ReadUnder(file, headings) ==
    IF headings = {} THEN <<>>
    ELSE LET n == CHOOSE n \in headings : TRUE
         IN (n :> ReadRecords(file[n])) @@ ReadUnder(file, headings \ {n})

read_score(file) == ReadUnder(file, DOMAIN file)

\* The exceptions the lines behind records raise, in the order of the lines
RaisedIn(records) ==
    SelectSeq([k \in 1..Len(records) |-> records[k].raised], LAMBDA e : e # "none")

\* read_score has read score_records without raising.
WasRead(score_records) == \A n \in DOMAIN score_records : RaisedIn(score_records[n]) = <<>>

\* MarioApp.read_score() returns without raising.
Readable(file) == WasRead(read_score(file))

\* The exception that leaves read_score on a file it cannot read: that of
\* the first line that raises.  The lines update_score writes have two
\* fields or more, so it is ValueError.
ReadError(score_records) ==
    Head(RaisedIn(score_records[CHOOSE n \in DOMAIN score_records :
                                    RaisedIn(score_records[n]) # <<>>]))

\* s, in ascending order of score, with the record v put in before the
\* records of the same score
RECURSIVE Inserted(_, _)
Inserted(s, v) ==
    IF s = <<>> THEN <<v>>
    ELSE IF v.score <= Head(s).score THEN <<v>> \o s
    ELSE <<Head(s)>> \o Inserted(Tail(s), v)

\* list.sort(key=lambda x: x[1]) of the records of one level; the sort is
\* stable
RECURSIVE SortAsc(_)
SortAsc(s) == IF s = <<>> THEN <<>> ELSE Inserted(SortAsc(Tail(s)), Head(s))

\* The sorted records of the current level with the new one: appended to
\* fewer than ten, else in place of the lowest if it is higher.
Ranked(sorted, new) ==
    IF Len(sorted) < TopScores THEN Append(sorted, new)
    ELSE IF new.score > sorted[1].score THEN [sorted EXCEPT ![1] = new]
    ELSE sorted

\* The lines written for the records of one level
Written(records) ==
    [k \in 1..Len(records) |-> RecordLine(records[k].name, records[k].score)]

\* The file update_score writes: the records of every level as they were
\* read, those of the level lv sorted and with the new record.
Updated(score_records, lv, new) ==
    [n \in DOMAIN score_records |->
        Written(IF n = lv THEN Ranked(SortAsc(score_records[n]), new) ELSE score_records[n])]

\* update_score once read_score has read score_records, or raised: a line
\* that cannot be read raises before the level is looked up.
Recorded(w, score_records) ==
    IF ~WasRead(score_records) \/ w.levelName \notin DOMAIN score_records
    THEN Raise(Logged(w, "update_score", w.levelName, FALSE),
               IF WasRead(score_records) THEN "KeyError" ELSE ReadError(score_records))
    ELSE [Logged(w, "update_score", w.levelName, TRUE) EXCEPT
            !.scores = Updated(score_records, w.levelName,
                               [raised |-> "none", name |-> w.typed, score |-> w.player.score])]

\* MarioApp.update_score(): the name dialog gives w.typed; the file is read,
\* the records of the current level sorted and the new one put in, and every
\* record of the file written back.
update_score(w) == Recorded(w, read_score(w.scores))

\* self._config has a section for the current level
HasGoal(w) == w.levelName \in LevelNames

\* MarioApp.get_next_level(), which raises KeyError unless HasGoal
get_next_level(w) == Goal(w.levelName)

\* The flag branch of _handle_player_collide_block for a contact that is not
\* from Above; ans is the answer to its dialog.
FlagReached(w, ans) ==
    LET w1 == update_score(w)
    IN IF Raised(w1) THEN w1
       ELSE IF ~HasGoal(w1) THEN Raise(w1, "KeyError")
       ELSE IF get_next_level(w1) = "END"
       THEN IF ans
            THEN LET w2 == reset_world(w1, "level1.txt")
                 IN IF Raised(w2) THEN w2
                    ELSE change_health(clear_score([w2 EXCEPT !.levelName = "level1.txt"]),
                                       MaxHealth)
            ELSE [w1 EXCEPT !.destroyed = TRUE]
       ELSE LET w2 == reset_world(w1, get_next_level(w1))
            IN IF Raised(w2) THEN w2 ELSE [w2 EXCEPT !.levelName = get_next_level(w1)]

\* The tunnel branch for a contact from Above of a ducking player
TunnelEntered(w) ==
    LET w1 == [w EXCEPT !.player.duck = FALSE]
    IN IF ~HasGoal(w1) THEN Raise(w1, "KeyError")
       ELSE reset_world(w1, get_next_level(w1))

\* MarioApp._handle_player_collide_block
HandlePlayerCollideBlock(w, b, dir, ans) ==
    LET w1 == IF dir = "A" THEN [w EXCEPT !.player.jumping = FALSE] ELSE w
        w2 == CASE BlockKind(b) = "flag" ->
                      IF dir = "A" THEN Block_on_hit(w1, b, dir) ELSE FlagReached(w1, ans)
                [] BlockKind(b) = "tunnel" ->
                      IF dir = "A" /\ w1.player.duck THEN TunnelEntered(w1) ELSE w1
                [] BlockKind(b) = "switches" ->
                      IF w1.active[b] THEN Block_on_hit(w1, b, dir) ELSE w1
                [] OTHER -> w1
    IN IF Raised(w2) THEN w2 ELSE Return(Block_on_hit(w2, b, dir), "True")

\* ------------------------------------------------------------------------
\* Mobs
\* ------------------------------------------------------------------------

\* Mushroom.on_hit that squishes the mushroom on a contact from the right too
Mushroom_on_hit_SquishOnRight(w, m, dir) ==
    CASE dir = "A" \/ dir = "R" ->
            LET w1 == [w EXCEPT !.squished[m] = TRUE]
                w2 == set_velocity(w1, <<0, -100>>)
                w3 == [w2 EXCEPT !.tempo[m] = 0]
            IN Timer(w3, SquishDelay, "remove_mob", m, TRUE, <<>>)
      [] dir = "L" ->
            LET w1 == set_velocity(change_health(w, -1), <<-50, 0>>)
            IN [w1 EXCEPT !.tempo[m] = -w1.tempo[m]]
      [] OTHER -> w

\* Mushroom.on_hit(event, (world, player)), dir = get_collision_direction(player, self)
Mushroom_on_hit(w, m, dir) ==
    CASE dir = "A" ->
            LET w1 == [w EXCEPT !.squished[m] = TRUE]
                w2 == set_velocity(w1, <<0, -100>>)
                w3 == [w2 EXCEPT !.tempo[m] = 0]
            IN Timer(w3, SquishDelay, "remove_mob", m, TRUE, <<>>)
      [] dir = "R" ->
            LET w1 == set_velocity(change_health(w, -1), <<50, 0>>)
            IN [w1 EXCEPT !.tempo[m] = -w1.tempo[m]]
      [] dir = "L" ->
            LET w1 == set_velocity(change_health(w, -1), <<-50, 0>>)
            IN [w1 EXCEPT !.tempo[m] = -w1.tempo[m]]
      [] OTHER -> w

\* Gang.on_hit that leaves the tempo of the squished gang as it is
Gang_on_hit_KeepsTempo(w, m, dir) ==
    CASE dir = "A" ->
            LET w1 == [w EXCEPT !.squished[m] = TRUE]
                w2 == set_velocity(w1, <<0, -100>>)
                w3 == w2
            IN Timer(w3, SquishDelay, "remove_mob", m, TRUE, <<>>)
      [] dir = "R" -> set_velocity(change_health(w, -1), <<50, 0>>)
      [] dir = "L" -> set_velocity(change_health(w, -1), <<-50, 0>>)
      [] OTHER -> w

\* Gang.on_hit(event, (world, player))
Gang_on_hit(w, m, dir) ==
    CASE dir = "A" ->
            LET w1 == [w EXCEPT !.squished[m] = TRUE]
                w2 == set_velocity(w1, <<0, -100>>)
                w3 == [w2 EXCEPT !.tempo[m] = 0]
            IN Timer(w3, SquishDelay, "remove_mob", m, TRUE, <<>>)
      [] dir = "R" -> set_velocity(change_health(w, -1), <<50, 0>>)
      [] dir = "L" -> set_velocity(change_health(w, -1), <<-50, 0>>)
      [] OTHER -> w

\* The entry of the log for mob.step of the mob m with the player on side.
Stepped(w, m, side) ==
    [w EXCEPT !.log = Append(@, [op |-> "step", arg |-> m, other |-> "player",
                                 dir |-> side, ok |-> w.mobIn[m]])]

\* Gang.step that runs away from the player
Gang_step_AwayFromPlayer(w, m, side) ==
    LET vx == CASE side = "left" -> -w.tempo[m]
                [] side = "right" -> w.tempo[m]
                [] OTHER -> w.mobVel[m][1]
    IN [Stepped(w, m, side) EXCEPT !.mobVel[m] = <<vx, w.mobVel[m][2]>>]

\* Gang.step(time_delta, (world, player)); side is where the player stands
\* relative to the mob: "left" (player_x < mob_x), "right" or "same".
Gang_step(w, m, side) ==
    LET vx == CASE side = "left" -> w.tempo[m]
                [] side = "right" -> -w.tempo[m]
                [] OTHER -> w.mobVel[m][1]
    IN [Stepped(w, m, side) EXCEPT !.mobVel[m] = <<vx, w.mobVel[m][2]>>]

\* on_hit of a bullet: BulletLeft and BulletRight define none of their own.
Projectile_on_hit(w, m, dir) == remove_mob(change_health(w, -1), m)

\* mob.on_hit(...) as dispatched on the mob's class
Mob_on_hit(w, m, dir) ==
    CASE w.mobKind[m] = "mushroom" -> Mushroom_on_hit(w, m, dir)
      [] w.mobKind[m] = "gang" -> Gang_on_hit(w, m, dir)
      [] OTHER -> Projectile_on_hit(w, m, dir)

\* _handle_player_collide_mob that tests is_shoot() before is_niubi()
HandlePlayerCollideMob_ShootFirst(w, m, dir) ==
    Return(IF w.player.shoot THEN [w EXCEPT !.player.shoot = FALSE]
           ELSE IF w.player.niubi THEN remove_mob(w, m)
           ELSE Mob_on_hit(w, m, dir),
           "True")

\* _handle_player_collide_mob that tests the bound method player.is_shoot,
\* which is true whatever the flag
HandlePlayerCollideMob_ShootMethod(w, m, dir) ==
    Return(IF w.player.niubi THEN remove_mob(w, m)
           ELSE IF TRUE THEN [w EXCEPT !.player.shoot = FALSE]
           ELSE Mob_on_hit(w, m, dir),
           "True")

\* MarioApp._handle_player_collide_mob
HandlePlayerCollideMob(w, m, dir) ==
    Return(IF w.player.niubi THEN remove_mob(w, m)
           ELSE IF w.player.shoot THEN [w EXCEPT !.player.shoot = FALSE]
           ELSE Mob_on_hit(w, m, dir),
           "True")

IsProjectile(kind) == kind \in {"fireball", "bullet_l", "bullet_r"}

\* _handle_mob_collide_block in which a mushroom turns on a contact from
\* Above too
HandleMobCollideBlock_TurnsOnAbove(w, m, b, dir) ==
    Return(
    IF IsProjectile(w.mobKind[m])
    THEN IF BlockKind(b) = "brick"
         THEN remove_mob(remove_block(w, b), m)
         ELSE remove_mob(w, m)
    ELSE IF w.mobKind[m] = "mushroom"
    THEN IF dir = "R" \/ dir = "L" \/ dir = "A"
         THEN [w EXCEPT !.tempo[m] = -w.tempo[m]]
         ELSE w
    ELSE IF w.mobKind[m] = "gang"
    THEN CASE dir = "R" -> [w EXCEPT !.mobVel[m] = <<50, -350>>]
           [] dir = "L" -> [w EXCEPT !.mobVel[m] = <<-50, -350>>]
           [] OTHER -> w
    ELSE w,
    "True")

\* _handle_mob_collide_block that removes the projectile only, brick or not
HandleMobCollideBlock_KeepsBrick(w, m, b, dir) ==
    Return(
    IF IsProjectile(w.mobKind[m])
    THEN remove_mob(w, m)
    ELSE IF w.mobKind[m] = "mushroom"
    THEN IF dir = "R" \/ dir = "L"
         THEN [w EXCEPT !.tempo[m] = -w.tempo[m]]
         ELSE w
    ELSE IF w.mobKind[m] = "gang"
    THEN CASE dir = "R" -> [w EXCEPT !.mobVel[m] = <<50, -350>>]
           [] dir = "L" -> [w EXCEPT !.mobVel[m] = <<-50, -350>>]
           [] OTHER -> w
    ELSE w,
    "True")

\* MarioApp._handle_mob_collide_block, dir = get_collision_direction(mob, block)
HandleMobCollideBlock(w, m, b, dir) ==
    Return(
    IF IsProjectile(w.mobKind[m])
    THEN IF BlockKind(b) = "brick"
         THEN remove_mob(remove_block(w, b), m)
         ELSE remove_mob(w, m)
    ELSE IF w.mobKind[m] = "mushroom"
    THEN IF dir = "R" \/ dir = "L"
         THEN [w EXCEPT !.tempo[m] = -w.tempo[m]]
         ELSE w
    ELSE IF w.mobKind[m] = "gang"
    THEN CASE dir = "R" -> [w EXCEPT !.mobVel[m] = <<50, -350>>]
           [] dir = "L" -> [w EXCEPT !.mobVel[m] = <<-50, -350>>]
           [] OTHER -> w
    ELSE w,
    "True")

\* mob.get_id == 'bullet_r' of MarioApp._handle_mob_collide_mob compares the
\* bound method itself with a string.
GetIdMethodEquals(kind, text) == FALSE

\* _handle_mob_collide_mob in which only the first mushroom turns round
HandleMobCollideMob_OneReverses(w, a, b) ==
    LET ka == w.mobKind[a]
        kb == w.mobKind[b]
    IN Return(
       IF ka = "fireball" \/ kb = "fireball"
       THEN remove_mob(remove_mob(w, a), b)
       ELSE IF ka = "bullet_l" \/ GetIdMethodEquals(ka, "bullet_r")
               \/ kb = "bullet_l" \/ GetIdMethodEquals(kb, "bullet_r")
       THEN remove_mob(remove_mob(w, a), b)
       ELSE IF ka = "gang" /\ kb = "mushroom" THEN w
       ELSE IF ka = "mushroom" /\ kb = "gang" THEN w
       ELSE IF ka = "gang" /\ kb = "gang" THEN w
       ELSE IF ka = "mushroom" /\ kb = "mushroom"
       THEN [w EXCEPT !.tempo[a] = -w.tempo[a]]
       ELSE remove_mob(remove_mob(w, a), b),
       "False")

\* _handle_mob_collide_mob whose last branch removes nothing
HandleMobCollideMob_ElseIgnores(w, a, b) ==
    LET ka == w.mobKind[a]
        kb == w.mobKind[b]
    IN Return(
       IF ka = "fireball" \/ kb = "fireball"
       THEN remove_mob(remove_mob(w, a), b)
       ELSE IF ka = "bullet_l" \/ GetIdMethodEquals(ka, "bullet_r")
               \/ kb = "bullet_l" \/ GetIdMethodEquals(kb, "bullet_r")
       THEN remove_mob(remove_mob(w, a), b)
       ELSE IF ka = "gang" /\ kb = "mushroom" THEN w
       ELSE IF ka = "mushroom" /\ kb = "gang" THEN w
       ELSE IF ka = "gang" /\ kb = "gang" THEN w
       ELSE IF ka = "mushroom" /\ kb = "mushroom"
       THEN [w EXCEPT !.tempo[a] = -w.tempo[a], !.tempo[b] = -w.tempo[b]]
       ELSE w,
       "False")

\* _handle_mob_collide_mob without the branches for a mushroom with a gang
HandleMobCollideMob_MixedDestroy(w, a, b) ==
    LET ka == w.mobKind[a]
        kb == w.mobKind[b]
    IN Return(
       IF ka = "fireball" \/ kb = "fireball"
       THEN remove_mob(remove_mob(w, a), b)
       ELSE IF ka = "bullet_l" \/ GetIdMethodEquals(ka, "bullet_r")
               \/ kb = "bullet_l" \/ GetIdMethodEquals(kb, "bullet_r")
       THEN remove_mob(remove_mob(w, a), b)
       ELSE IF ka = "gang" /\ kb = "mushroom" THEN remove_mob(remove_mob(w, a), b)
       ELSE IF ka = "mushroom" /\ kb = "gang" THEN remove_mob(remove_mob(w, a), b)
       ELSE IF ka = "gang" /\ kb = "gang" THEN w
       ELSE IF ka = "mushroom" /\ kb = "mushroom"
       THEN [w EXCEPT !.tempo[a] = -w.tempo[a], !.tempo[b] = -w.tempo[b]]
       ELSE remove_mob(remove_mob(w, a), b),
       "False")

\* MarioApp._handle_mob_collide_mob
HandleMobCollideMob(w, a, b) ==
    LET ka == w.mobKind[a]
        kb == w.mobKind[b]
    IN Return(
       IF ka = "fireball" \/ kb = "fireball"
       THEN remove_mob(remove_mob(w, a), b)
       ELSE IF ka = "bullet_l" \/ GetIdMethodEquals(ka, "bullet_r")
               \/ kb = "bullet_l" \/ GetIdMethodEquals(kb, "bullet_r")
       THEN remove_mob(remove_mob(w, a), b)
       ELSE IF ka = "gang" /\ kb = "mushroom" THEN w
       ELSE IF ka = "mushroom" /\ kb = "gang" THEN w
       ELSE IF ka = "gang" /\ kb = "gang" THEN w
       ELSE IF ka = "mushroom" /\ kb = "mushroom"
       THEN [w EXCEPT !.tempo[a] = -w.tempo[a], !.tempo[b] = -w.tempo[b]]
       ELSE remove_mob(remove_mob(w, a), b),
       "False")

\* ------------------------------------------------------------------------
\* Items
\* ------------------------------------------------------------------------

\* Star.collect(player)
Star_collect(w) ==
    Timer([w EXCEPT !.player.niubi = TRUE], StarDelay, "set_niubi", "player", FALSE, <<>>)

\* Flower.collect(player)
Flower_collect(w) == [w EXCEPT !.player.shoot = TRUE]

\* Coin.collect(player): the coin's value is added to the score
Coin_collect(w) == change_score(w, 1)

\* dropped_item.collect(self._player) as dispatched on the item's class
Item_collect(w, i) ==
    LET w1 == Logged(w, "collect", i, w.itemIn[i])
    IN CASE ItemKind(i) = "star" -> Star_collect(w1)
         [] ItemKind(i) = "flower" -> Flower_collect(w1)
         [] ItemKind(i) = "coin" -> Coin_collect(w1)
         [] OTHER -> w1

\* _handle_player_collide_item without the branch for a flower
HandlePlayerCollideItem_NoFlower(w, i) ==
    Return(CASE ItemKind(i) = "coin" -> remove_item(Item_collect(w, i), i)
             [] ItemKind(i) = "star" -> remove_item(Item_collect(w, i), i)
             [] OTHER -> w,
           "False")

\* MarioApp._handle_player_collide_item
HandlePlayerCollideItem(w, i) ==
    Return(CASE ItemKind(i) = "coin" -> remove_item(Item_collect(w, i), i)
             [] ItemKind(i) = "star" -> remove_item(Item_collect(w, i), i)
             [] ItemKind(i) = "flower" -> remove_item(Item_collect(w, i), i)
             [] OTHER -> w,
           "False")

\* ------------------------------------------------------------------------
\* Timer callbacks
\* ------------------------------------------------------------------------

\* The function a Timer was started with, applied to its arguments.
RunTimer(w, t) ==
    CASE t.fn = "set_active" -> set_active(w, t.target, t.flag)
      [] t.fn = "blocks_recover" -> blocks_recover(w, t.bricks)
      [] t.fn = "remove_mob" -> remove_mob(w, t.target)
      [] t.fn = "set_niubi" -> [w EXCEPT !.player.niubi = t.flag]

RemoveAt(s, i) == [k \in 1..(Len(s) - 1) |-> IF k < i THEN s[k] ELSE s[k + 1]]

\* ------------------------------------------------------------------------
\* The configuration file
\* ------------------------------------------------------------------------

\* A line of the file: a heading line ==heading==, or an attribute line
\* "attr : value" (heading = "").  A value is the sequence of its characters;
\* a file name counts as one.
Line(heading, attr, value) == [heading |-> heading, attr |-> attr, value |-> value]

\* The string of a value that is a file name
Text(v) == IF v = <<>> THEN "" ELSE v[1]

\* float(v) takes digits with at most one point among them.
IsFloat(v) ==
    /\ \A k \in 1..Len(v) : v[k] \in Digits \cup {"."}
    /\ \E k \in 1..Len(v) : v[k] \in Digits
    /\ Cardinality({k \in 1..Len(v) : v[k] = "."}) <= 1

\* A file that load_config accepts.
ValidConfig ==
    << Line("World", "", <<>>),
       Line("", "gravity", <<"3", "0", "0">>),
       Line("", "start", <<"level1.txt">>),
       Line("Player", "", <<>>),
       Line("", "x", <<"3", "0">>),
       Line("", "y", <<"3", ".", "5">>),
       Line("", "mass", <<"1", "0", "0">>),
       Line("", "health", <<ToString(MaxHealth)>>),
       Line("", "max_velocity", <<"5", "0", "0">>) >>

\* The lines of s at the positions keep, in their order
RECURSIVE Kept(_, _)
Kept(s, keep) ==
    IF s = <<>> THEN <<>>
    ELSE LET rest == Kept(SubSeq(s, 1, Len(s) - 1), keep)
         IN IF Len(s) \in keep THEN Append(rest, s[Len(s)]) ELSE rest

\* The files tried: ValidConfig with any of its lines left out, and
\* ValidConfig with one value that is no number, or no whole number.
ConfigFiles ==
    {Kept(ValidConfig, keep) : keep \in SUBSET (1..Len(ValidConfig))}
    \cup {[ValidConfig EXCEPT ![k].value = bad] :
             k \in {2, 5, 6, 7, 8, 9}, bad \in {<<"a">>, <<"1", ".", "5">>, <<>>}}

\* d with d[k] = v
Put(d, k, v) == [x \in DOMAIN d \cup {k} |-> IF x = k THEN v ELSE d[x]]

\* The loop of read_config: config is the dictionary so far, heading the
\* last heading read, bound whether a heading was read at all.  An attribute
\* line before any heading reads the unbound local heading.
RECURSIVE ReadLines(_, _, _, _)
ReadLines(lines, dict, heading, bound) ==
    IF lines = <<>> THEN [raised |-> "none", config |-> dict]
    ELSE LET line == Head(lines)
         IN IF line.heading # ""
            THEN ReadLines(Tail(lines), Put(dict, line.heading, <<>>), line.heading, TRUE)
            ELSE IF ~bound THEN [raised |-> "UnboundLocalError", config |-> dict]
            ELSE ReadLines(Tail(lines),
                           [dict EXCEPT ![heading] = Put(@, line.attr, line.value)],
                           heading, TRUE)

\* MarioApp.read_config(filename)
read_config(lines) == ReadLines(lines, <<>>, "", FALSE)

\* The settings load_config reads, in its order, each with its conversion.
Settings ==
    << <<"World", "start", "str">>, <<"World", "gravity", "int">>,
       <<"Player", "x", "float">>, <<"Player", "y", "float">>,
       <<"Player", "mass", "int">>, <<"Player", "health", "int">>,
       <<"Player", "max_velocity", "int">> >>

\* What reading the setting st from the dictionary raises
SettingRaises(dict, st) ==
    IF st[1] \notin DOMAIN dict \/ st[2] \notin DOMAIN dict[st[1]] THEN "KeyError"
    ELSE IF st[3] = "int" /\ ~IsInt(dict[st[1]][st[2]]) THEN "ValueError"
    ELSE IF st[3] = "float" /\ ~IsFloat(dict[st[1]][st[2]]) THEN "ValueError"
    ELSE "none"

\* The settings that load_config gets to read without an exception
ReadUpTo(dict) ==
    {n \in 0..Len(Settings) : \A k \in 1..n : SettingRaises(dict, Settings[k]) = "none"}

\* MarioApp.load_config() on the file lines: the only exception it catches
\* is the UnboundLocalError of read_config; a setting read before another one
\* raises is kept.
load_config(w, lines) ==
    LET r == read_config(lines)
    IN IF r.raised = "UnboundLocalError"
       THEN [Logged(Logged(w, "showerror", "Bad Input", TRUE), "destroy", "master", TRUE)
                EXCEPT !.destroyed = TRUE]
       ELSE LET n == CHOOSE n \in ReadUpTo(r.config) : n + 1 \notin ReadUpTo(r.config)
                w1 == IF n >= 1 THEN [w EXCEPT !.levelName = Text(r.config["World"]["start"])] ELSE w
                w2 == IF n >= 6
                      THEN [w1 EXCEPT !.player.health = IntOf(r.config["Player"]["health"])]
                      ELSE w1
            IN IF n = Len(Settings) THEN w2
               ELSE Raise(w2, SettingRaises(r.config, Settings[n + 1]))

\* MarioApp.__init__ on the configuration file lines: load_config, then the
\* Player and the world of the start level.
MarioApp_init(w, lines) ==
    LET w1 == load_config(w, lines)
    IN IF Raised(w1) THEN w1 ELSE reset_world(w1, w1.levelName)

\* ------------------------------------------------------------------------
\* Loading the level
\* ------------------------------------------------------------------------

\* A level file: the blocks, mobs and items it places.
Level(blocks, mobs, items) == [blocks |-> blocks, mobs |-> mobs, items |-> items]

LevelSwitch == Level({"sw", "brickNear", "brickAlso", "brickFar"}, {}, {})

LevelBricks == Level({"brickFar", "cube"}, {}, {})

LevelBounce == Level({"bnc"}, {}, {})

LevelMonsters == Level({}, {"m1", "g1"}, {})

LevelHerd == Level({}, {"m1", "m2", "g1", "g2"}, {})

LevelSky == Level({}, {"m1", "g1", "c1"}, {})

LevelGoal == Level({"flag1", "tunnel1"}, {"m1"}, {})

LevelItems == Level({}, {}, {"star1", "star2", "flower1", "coin1"})

LevelSeek == Level({"cube"}, {"g1"}, {})

\* Two switches with the brick brickNear in the radius of both
LevelSwitches == Level({"sw", "sw2", "brickNear", "brickFar"}, {}, {})

\* Two mushrooms by a cube
LevelPair == Level({"cube"}, {"m1", "m2"}, {})

\* A mushroom and a gang by a cube
LevelCrowd == Level({"cube"}, {"m1", "g1"}, {})

\* A star, a flower and a mushroom
LevelPowers == Level({}, {"m1"}, {"star1", "flower1"})

\* A mushroom and a gang by a brick and a cube
LevelYard == Level({"brickFar", "cube"}, {"m1", "g1"}, {})

\* A cloud over a brick and a cube
LevelRain == Level({"brickFar", "cube"}, {"c1"}, {})

\* A coin before the flag
LevelPrize == Level({"flag1"}, {}, {"coin1"})

\* What level2.txt, the goal of level1.txt, contains.
LevelEnd == Level({"flag1"}, {}, {})

Levels == {LevelSwitch, LevelBricks, LevelBounce, LevelMonsters, LevelHerd, LevelSky,
           LevelGoal, LevelItems, LevelSeek, LevelSwitches,
           LevelPair, LevelCrowd, LevelPowers, LevelYard,
           LevelRain, LevelPrize}

\* The files on disk when level1.txt contains lv
DiskOf(lv) == [n \in LevelNames |-> IF n = "level1.txt" THEN lv ELSE LevelEnd]

\* A level of a flag and a tunnel
LevelGates == Level({"flag1", "tunnel1"}, {}, {})

\* The level files of the configuration and one more that the configuration
\* does not name
LevelFiles == LevelNames \cup {"bonus.txt"}

\* Three level files, each with a flag and a tunnel.
DiskMenu == [n \in LevelFiles |-> LevelGates]

\* A name of letters, as the name dialog usually gets
PlainName == <<"a", "n", "n">>

\* MarioApp.__init__ up to its call of reset_world: the configuration is
\* loaded and the Player constructed; there is no world yet.  high_score.txt
\* holds one record short of ten for each level file of the disk d.
Constructed(d) ==
    [blockIn |-> [b \in BlockIds |-> FALSE],
     blockPos |-> [b \in BlockIds |-> NoPos],
     active |-> [b \in BlockIds |-> FALSE],
     mobIn |-> [m \in MobIds |-> FALSE],
     mobKind |-> [m \in MobIds |-> "bullet_r"],
     tempo |-> [m \in MobIds |-> 0],
     squished |-> [m \in MobIds |-> FALSE],
     mobVel |-> [m \in MobIds |-> <<0, 0>>],
     itemIn |-> [i \in ItemIds |-> FALSE],
     player |-> InitPlayer, timers |-> <<>>, log |-> <<>>,
     disk |-> d, level |-> Loaded("", Level({}, {}, {})), levelName |-> "level1.txt",
     scores |-> [n \in DOMAIN d |-> [k \in 1..(TopScores - 1) |-> RecordLine(PlainName, 0)]],
     typed |-> PlainName,
     ret |-> "none", destroyed |-> FALSE]

\* The application after a MarioApp.__init__ that results in w
Started(w) ==
       /\ config = ValidConfig
       /\ disk = w.disk
       /\ level = w.level
       /\ levelName = w.levelName
       /\ scores = w.scores
       /\ typed = w.typed
       /\ keyDown = FALSE
       /\ ret = "none"
       /\ pc = "idle"
       /\ blockIn = w.blockIn
       /\ blockPos = w.blockPos
       /\ active = w.active
       /\ mobIn = w.mobIn
       /\ mobKind = w.mobKind
       /\ tempo = w.tempo
       /\ squished = w.squished
       /\ mobVel = w.mobVel
       /\ itemIn = w.itemIn
       /\ player = w.player
       /\ timers = w.timers
       /\ log = <<>>

\* The application after MarioApp.__init__ has loaded level1.txt of the disk d
InitOn(d) == Started(reset_world(Constructed(d), "level1.txt"))

\* The application started on a disk whose level1.txt contains lv
InitWith(lv) == InitOn(DiskOf(lv))

\* main() before MarioApp(root), the file lines being the one the user will
\* choose as the configuration: the defaults of __init__, no world yet.
Booting(d, lines) ==
    LET w == [Constructed(d) EXCEPT !.player.health = DefaultMaxHealth]
    IN /\ config = lines
       /\ disk = w.disk
       /\ level = w.level
       /\ levelName = w.levelName
       /\ scores = w.scores
       /\ typed = w.typed
       /\ keyDown = FALSE
       /\ ret = "none"
       /\ pc = "start"
       /\ blockIn = w.blockIn
       /\ blockPos = w.blockPos
       /\ active = w.active
       /\ mobIn = w.mobIn
       /\ mobKind = w.mobKind
       /\ tempo = w.tempo
       /\ squished = w.squished
       /\ mobVel = w.mobVel
       /\ itemIn = w.itemIn
       /\ player = w.player
       /\ timers = w.timers
       /\ log = <<>>

\* What the player may type into the name dialog: a name of letters, no
\* name, the dialog cancelled (None is written as 'None'), and names with
\* ' : ' in them.
TypedNames ==
    {PlainName, <<>>, <<"N", "o", "n", "e">>,
     <<"x", " ", ":", " ", "7">>, <<"a", " ", ":", " ", "b">>}

\* The records of the scores in vs, in this order
RecordsOf(vs) == [k \in 1..Len(vs) |-> RecordLine(PlainName, vs[k])]

\* What high_score.txt may hold for a level when the game starts: nine or
\* ten records, in no particular order.
ScoreLists ==
    {RecordsOf([k \in 1..(TopScores - 1) |-> 0]),
     RecordsOf([k \in 1..TopScores |-> 0]),
     RecordsOf([k \in 1..TopScores |-> 1]),
     RecordsOf([k \in 1..TopScores |-> IF k = 2 THEN 0 ELSE IF k = 5 THEN 1 ELSE 2])}

\* The application started on the level lv, with the records list under each
\* heading of high_score.txt and a player who gives the name name
InitScores(lv, list, name) ==
    Started([reset_world(Constructed(DiskOf(lv)), "level1.txt") EXCEPT
                !.scores = [n \in DOMAIN @ |-> list], !.typed = name])

\* The application constructed on one of the levels, or about to be
\* constructed on one of the configuration files.
Init ==
    \/ \E lv \in Levels : InitWith(lv)
    \/ \E list \in ScoreLists, name \in TypedNames : InitScores(LevelPrize, list, name)
    \/ \E lines \in ConfigFiles : Booting(DiskOf(LevelBounce), lines)

\* ------------------------------------------------------------------------
\* Steps of the application
\* ------------------------------------------------------------------------

\* A step whose result is w; one that starts timers is taken only while fewer
\* than MaxTimers are pending.
Step(w) ==
    /\ Len(w.timers) > Len(timers) => Len(timers) < MaxTimers
    /\ UNCHANGED <<config, disk, typed>>
    /\ Becomes(w)

Sides == {"left", "right", "same"}

Gangs == {m \in LevelMobs : LevelMobKind(m) = "gang"}

Clouds == {m \in LevelMobs : LevelMobKind(m) = "cloud"}

\* CloudMob.step: the cloud drops a fireball now and then (choice "drop").
Cloud_step(w, m, choice) ==
    IF choice = "drop" /\ \E f \in FireballIds : ~w.mobIn[f]
    THEN add_mob(w, CHOOSE f \in FireballIds : ~w.mobIn[f], "fireball")
    ELSE w

\* What the step of each mob in the world depends on: for a gang the side on
\* which the player stands, for a cloud whether its time to drop has come.
StepInputs ==
    {c \in [{m \in Gangs \cup Clouds : mobIn[m]} -> Sides \cup {"drop", "keep"}] :
        \A m \in DOMAIN c : IF m \in Gangs THEN c[m] \in Sides ELSE c[m] \in {"drop", "keep"}}

MobOrder == <<"m1", "m2", "g1", "g2", "c1">>

\* World.step, first part: mob.step of every mob in the world.
RECURSIVE StepMobs(_, _, _)
StepMobs(w, order, sides) ==
    IF order = <<>> THEN w
    ELSE LET m == Head(order)
             w1 == IF w.mobIn[m] /\ w.mobKind[m] = "gang"
                   THEN Gang_step(w, m, sides[m])
                   ELSE IF w.mobIn[m] /\ w.mobKind[m] = "cloud"
                   THEN Cloud_step(w, m, sides[m])
                   ELSE w
         IN StepMobs(w1, Tail(order), sides)

\* MarioApp.step is entered: the mobs step, then the physics advances and
\* reports contacts one by one.
BeginTick ==
    /\ pc = "idle"
    /\ pc' = "tick"
    /\ \E sides \in StepInputs : Step(StepMobs(Cur, MobOrder, sides))
    /\ UNCHANGED keyDown

\* The rest of MarioApp.step after World.step: game_over(), then
\* master.after(10, self.step).  restart is the answer to its dialog.
game_over(w, restart) ==
    IF ~is_dead(w) THEN w
    ELSE IF restart
    THEN LET w1 == reset_world(w, "level1.txt")
         IN IF Raised(w1) THEN w1
            ELSE change_health(clear_score([w1 EXCEPT !.levelName = "level1.txt"]), MaxHealth)
    ELSE [w EXCEPT !.destroyed = TRUE]

EndTick ==
    /\ pc = "tick"
    /\ \E restart \in BOOLEAN :
          LET w == game_over(Cur, restart)
          IN /\ pc' = IF w.destroyed THEN "closed" ELSE "idle"
             /\ Step(w)
    /\ UNCHANGED keyDown

\* A contact between the player and a block, reported during the tick.
PlayerCollideBlock ==
    /\ pc = "tick"
    /\ \E b \in BlockIds, dir \in Directions :
          /\ blockIn[b]
          /\ \E ans \in (IF BlockKind(b) = "flag" /\ dir # "A" THEN BOOLEAN ELSE {FALSE}) :
                \E w \in {HandlePlayerCollideBlock(
                             Entered(Cur, "player_block", "player", b, dir), b, dir, ans)} :
                   /\ Step(w)
                   /\ pc' = IF w.destroyed THEN "closed" ELSE pc
    /\ UNCHANGED keyDown

\* A contact between the player and a mob.
PlayerCollideMob ==
    /\ pc = "tick"
    /\ player.health + MaxOverkill > 0
    /\ \E m \in MobIds, dir \in Directions :
          /\ mobIn[m]
          /\ Step(HandlePlayerCollideMob(Entered(Cur, "player_mob", "player", m, dir), m, dir))
    /\ UNCHANGED <<pc, keyDown>>

\* A contact between the player and an item.
PlayerCollideItem ==
    /\ pc = "tick"
    /\ \E i \in ItemIds :
          /\ itemIn[i]
          /\ Step(HandlePlayerCollideItem(Entered(Cur, "player_item", "player", i, ""), i))
    /\ UNCHANGED <<pc, keyDown>>

\* A contact between a mob and a block.
MobCollideBlock ==
    /\ pc = "tick"
    /\ \E m \in MobIds, b \in BlockIds, dir \in Directions :
          /\ mobIn[m] /\ blockIn[b]
          /\ Step(HandleMobCollideBlock(Entered(Cur, "mob_block", m, b, dir), m, b, dir))
    /\ UNCHANGED <<pc, keyDown>>

\* A contact between two mobs.
MobCollideMob ==
    /\ pc = "tick"
    /\ \E a \in MobIds, b \in MobIds :
          /\ a # b /\ mobIn[a] /\ mobIn[b]
          /\ Step(HandleMobCollideMob(Entered(Cur, "mob_mob", a, b, ""), a, b))
    /\ UNCHANGED <<pc, keyDown>>

\* MarioApp._move(dx, dy)
Move(w, dx, dy) == set_velocity(w, <<dx, dy>>)

\* _jump that does not test is_jumping
Jump_Always(w) == [Move(w, 0, -200) EXCEPT !.player.jumping = TRUE]

\* MarioApp._jump()
Jump(w) ==
    IF ~w.player.jumping
    THEN [Move(w, 0, -200) EXCEPT !.player.jumping = TRUE]
    ELSE w

\* MarioApp._duck()
Duck(w) == [w EXCEPT !.player.duck = TRUE]

\* self._player.is_shoot in MarioApp.shoot is the bound method, not a call of
\* it: it is true whatever the flag.
IsShootMethod(w) == TRUE

\* MarioApp.shoot(); k is the new bullet object
Shoot(w, k) ==
    IF IsShootMethod(w)
    THEN IF w.player.vel[1] >= 0
         THEN add_mob(w, k, "bullet_r")
         ELSE add_mob(w, k, "bullet_l")
    ELSE w

\* MarioApp.key_press(e), which the event loop runs between two steps, for
\* the keys a and d (Left and Right do the same)
KeyMove ==
    /\ pc = "idle"
    /\ \E key \in {"a", "d"} :
          Step(IF key = "a" THEN Move(Cur, -150, 0) ELSE Move(Cur, 150, 0))
    /\ UNCHANGED <<pc, keyDown>>

\* key_press with key w (Up and space do the same)
KeyJump ==
    /\ pc = "idle"
    /\ Step(Jump(Cur))
    /\ UNCHANGED <<pc, keyDown>>

\* key_press with key s (Down does the same)
KeyDuck ==
    /\ pc = "idle"
    /\ Step(Duck(Cur))
    /\ keyDown' = TRUE
    /\ UNCHANGED pc

\* The player lets go of the down key: bind() binds the key presses only, so
\* nothing of the application runs.
ReleaseDown ==
    /\ pc = "idle"
    /\ keyDown
    /\ keyDown' = FALSE
    /\ UNCHANGED <<config, disk, typed, level, levelName, scores, ret, pc, blockIn, blockPos, active,
                   mobIn, mobKind, tempo, squished, mobVel, itemIn, player, timers, log>>

\* key_press with key "b"
KeyShoot ==
    /\ pc = "idle"
    /\ \E k \in BulletIds :
          /\ ~mobIn[k]
          /\ Step(Shoot(Cur, k))
    /\ UNCHANGED <<pc, keyDown>>

\* app = MarioApp(root) of main()
Construct ==
    /\ pc = "start"
    /\ LET w == MarioApp_init(Entered(Cur, "__init__", "master", "", ""), config)
       IN /\ Step(w)
          /\ pc' = IF Raised(w) THEN "crashed" ELSE IF w.destroyed THEN "closed" ELSE "idle"
    /\ UNCHANGED keyDown

\* MarioApp.load_level(); filename is what the file dialog gives: a file of
\* the disk, or "" when the dialog is cancelled
load_level(w, filename) ==
    LET w1 == IF filename # "" THEN reset_world(w, filename) ELSE w
    IN IF Raised(w1) THEN w1 ELSE [w1 EXCEPT !.levelName = filename]

\* MarioApp.reset_level(); ans is the answer to its dialog
reset_level(w, ans) ==
    IF ans
    THEN LET w1 == reset_world(w, w.levelName)
         IN IF Raised(w1) THEN w1 ELSE change_health(clear_score(w1), MaxHealth)
    ELSE [w EXCEPT !.destroyed = TRUE]

\* File > Load Level, which the event loop runs between two steps
LoadLevel ==
    /\ pc = "idle"
    /\ \E filename \in DOMAIN disk \cup {""} :
          Step(load_level(Entered(Cur, "load_level", filename, "", ""), filename))
    /\ UNCHANGED <<pc, keyDown>>

\* File > Reset Level
ResetLevel ==
    /\ pc = "idle"
    /\ \E ans \in BOOLEAN :
          LET w == reset_level(Entered(Cur, "reset_level", levelName, "", ""), ans)
          IN /\ Step(w)
             /\ pc' = IF w.destroyed THEN "closed" ELSE pc
    /\ UNCHANGED keyDown

\* A Timer whose delay has passed runs its function, on its own thread: at
\* any point of the main thread, in or between steps.  The log notes whether
\* it ran inside a step.
FireTimer ==
    /\ pc # "closed"
    /\ \E i \in 1..Len(timers) :
          /\ timers[i].due = 0
          /\ LET w == [Cur EXCEPT !.timers = RemoveAt(@, i)]
             IN Step(RunTimer(Logged(w, "fire", timers[i].fn, pc = "tick"), timers[i]))
    /\ UNCHANGED <<pc, keyDown>>

\* A tenth of a second passes; a Timer that is due runs before more time passes.
Advance ==
    /\ pc = "idle"
    /\ timers # <<>>
    /\ \A i \in 1..Len(timers) : timers[i].due > 0
    /\ Step([Cur EXCEPT !.timers = [i \in 1..Len(timers) |-> [timers[i] EXCEPT !.due = @ - 1]]])
    /\ UNCHANGED <<pc, keyDown>>

\* Tenths of a second in a second, the unit of the Timer delays
Second == 10

\* A second passes, no Timer being due before its end.
AdvanceSecond ==
    /\ pc = "idle"
    /\ timers # <<>>
    /\ \A i \in 1..Len(timers) : timers[i].due >= Second
    /\ Step([Cur EXCEPT !.timers = [i \in 1..Len(timers) |-> [timers[i] EXCEPT !.due = @ - Second]]])
    /\ UNCHANGED <<pc, keyDown>>

\* The delay that ends first
MinDue ==
    CHOOSE d \in {timers[i].due : i \in 1..Len(timers)} :
        \A i \in 1..Len(timers) : d <= timers[i].due

\* Time passes until the first of the pending Timers is due.
AdvanceToDue ==
    /\ pc = "idle"
    /\ timers # <<>>
    /\ \A i \in 1..Len(timers) : timers[i].due > 0
    /\ Step([Cur EXCEPT !.timers = [i \in 1..Len(timers) |-> [timers[i] EXCEPT !.due = @ - MinDue]]])
    /\ UNCHANGED <<pc, keyDown>>

Next ==
    \/ BeginTick
    \/ EndTick
    \/ PlayerCollideBlock
    \/ PlayerCollideMob
    \/ PlayerCollideItem
    \/ MobCollideBlock
    \/ MobCollideMob
    \/ KeyMove
    \/ KeyJump
    \/ KeyDuck
    \/ KeyShoot
    \/ ReleaseDown
    \/ LoadLevel
    \/ ResetLevel
    \/ FireTimer
    \/ Advance
    \/ AdvanceSecond
    \/ AdvanceToDue
    \/ Construct

Spec == Init /\ [][Next]_vars

\* The application run on one level file each, with the steps that the level
\* and the player's keys allow.

\* A level of a switch and three bricks; the player shoots.
NextSwitch ==
    \/ BeginTick
    \/ EndTick
    \/ PlayerCollideBlock
    \/ MobCollideBlock
    \/ KeyShoot
    \/ FireTimer
    \/ Advance

SpecSwitch == InitWith(LevelSwitch) /\ [][NextSwitch]_vars

\* A level of a brick and a cube; the player walks and shoots both ways, and
\* the bullets may come back at the player.
NextProjectile ==
    \/ BeginTick
    \/ EndTick
    \/ PlayerCollideBlock
    \/ PlayerCollideMob
    \/ MobCollideBlock
    \/ MobCollideMob
    \/ KeyMove
    \/ KeyShoot

SpecProjectile == InitWith(LevelBricks) /\ [][NextProjectile]_vars

\* A level of one bounce pad; the player walks and jumps.
NextBounce ==
    \/ BeginTick
    \/ EndTick
    \/ PlayerCollideBlock
    \/ KeyMove
    \/ KeyJump
    \/ FireTimer
    \/ Advance

SpecBounce == InitWith(LevelBounce) /\ [][NextBounce]_vars

\* The same with what the scheduling guarantees: a step of the application
\* comes to its end, time passes, and a Timer that is due runs.
SpecBounceFair ==
    SpecBounce /\ WF_vars(EndTick) /\ SF_vars(Advance) /\ WF_vars(FireTimer)

\* A level of a mushroom and a gang; the player is carried into them.
NextMonsters ==
    \/ BeginTick
    \/ EndTick
    \/ PlayerCollideMob
    \/ MobCollideMob
    \/ FireTimer
    \/ Advance

SpecMonsters == InitWith(LevelMonsters) /\ [][NextMonsters]_vars

\* A level of two mushrooms and two gangs that run into each other.
NextHerd ==
    \/ BeginTick
    \/ EndTick
    \/ MobCollideMob

SpecHerd == InitWith(LevelHerd) /\ [][NextHerd]_vars

\* A level of a mushroom, a gang and a cloud; the player walks and shoots and
\* stays clear of them.
NextSky ==
    \/ BeginTick
    \/ EndTick
    \/ MobCollideMob
    \/ KeyMove
    \/ KeyShoot

SpecSky == InitWith(LevelSky) /\ [][NextSky]_vars

\* A level of a flag, a tunnel and a mushroom, whose goal is a level of a
\* flag; the player presses and lets go of the down key.
NextGoal ==
    \/ BeginTick
    \/ EndTick
    \/ PlayerCollideBlock
    \/ PlayerCollideMob
    \/ KeyDuck
    \/ ReleaseDown
    \/ FireTimer
    \/ Advance

SpecGoal == InitWith(LevelGoal) /\ [][NextGoal]_vars

\* A level of two stars, a flower and a coin.
NextItems ==
    \/ BeginTick
    \/ EndTick
    \/ PlayerCollideItem
    \/ FireTimer
    \/ Advance

SpecItems == InitWith(LevelItems) /\ [][NextItems]_vars

\* A level of a cube and a gang: the gang seeks the player, jumps at the cube
\* and is jumped on.
NextSeek ==
    \/ BeginTick
    \/ EndTick
    \/ PlayerCollideMob
    \/ MobCollideBlock
    \/ FireTimer
    \/ Advance

SpecSeek == InitWith(LevelSeek) /\ [][NextSeek]_vars

\* A level of two switches whose radii overlap, and two bricks; the player
\* shoots; the contacts fall on whole seconds.
NextSwitches ==
    \/ BeginTick
    \/ EndTick
    \/ PlayerCollideBlock
    \/ MobCollideBlock
    \/ KeyShoot
    \/ FireTimer
    \/ AdvanceSecond

SpecSwitches == InitWith(LevelSwitches) /\ [][NextSwitches]_vars

\* A level of two mushrooms and a cube, or one of a mushroom, a gang and a
\* cube: the mobs run into the cube, into each other and into the player, who
\* also jumps on them; a contact falls on the start of a Timer or on its end.
NextCrowd ==
    \/ BeginTick
    \/ EndTick
    \/ PlayerCollideMob
    \/ MobCollideBlock
    \/ MobCollideMob
    \/ FireTimer
    \/ AdvanceToDue

SpecCrowd == (InitWith(LevelPair) \/ InitWith(LevelCrowd)) /\ [][NextCrowd]_vars

\* A level of a star, a flower and a mushroom: the player meets the mushroom
\* with and without what the items give.
NextPowers ==
    \/ BeginTick
    \/ EndTick
    \/ PlayerCollideItem
    \/ PlayerCollideMob
    \/ FireTimer
    \/ AdvanceToDue

SpecPowers == InitWith(LevelPowers) /\ [][NextPowers]_vars

\* Three level files of a flag and a tunnel each, one of them not named by the
\* configuration; the player ducks and uses the File menu.
NextMenu ==
    \/ BeginTick
    \/ EndTick
    \/ PlayerCollideBlock
    \/ KeyDuck
    \/ LoadLevel
    \/ ResetLevel

SpecMenu == InitOn(DiskMenu) /\ [][NextMenu]_vars

\* The application started on each of the configuration files tried, with a
\* level of one bounce pad.
NextConfig ==
    \/ Construct
    \/ BeginTick
    \/ EndTick
    \/ PlayerCollideBlock

SpecConfig ==
    (\E lines \in ConfigFiles : Booting(DiskOf(LevelBounce), lines)) /\ [][NextConfig]_vars

\* The application constructed on the valid configuration, with a level of a
\* brick and a cube; the player walks and jumps, and levels are loaded and reset.
NextJump ==
    \/ Construct
    \/ BeginTick
    \/ EndTick
    \/ PlayerCollideBlock
    \/ KeyMove
    \/ KeyJump
    \/ LoadLevel
    \/ ResetLevel

SpecJump == Booting(DiskOf(LevelBricks), ValidConfig) /\ [][NextJump]_vars

\* A brick and a cube with a mushroom and a gang, or under a cloud: the mobs
\* run into the blocks, the cloud drops fireballs and the player shoots.
NextYard ==
    \/ BeginTick
    \/ EndTick
    \/ MobCollideBlock
    \/ KeyMove
    \/ KeyShoot

SpecYard == (InitWith(LevelYard) \/ InitWith(LevelRain)) /\ [][NextYard]_vars

\* A level with a coin before its flag, then the last level: the player
\* reaches the flags with or without the coin and gives a name each time.
NextScores ==
    \/ BeginTick
    \/ EndTick
    \/ PlayerCollideBlock
    \/ PlayerCollideItem

SpecScores ==
    (\E list \in ScoreLists, name \in TypedNames : InitScores(LevelPrize, list, name))
    /\ [][NextScores]_vars

\* ------------------------------------------------------------------------

\* The handler that the step just taken ran, and what it ran for.
Ran(handler) == log' # <<>> /\ log'[1].op = handler

RanFor(handler, thing, other, dir) ==
    /\ Ran(handler)
    /\ log'[1].arg = thing /\ log'[1].other = other /\ log'[1].dir = dir

\* The calls of op on arg that the step just taken made.
CallsOf(l, op, arg) == {k \in 1..Len(l) : l[k].op = op /\ l[k].arg = arg}

CallsOp(l, op) == {k \in 1..Len(l) : l[k].op = op}

\* C1: every deferred action (a Timer callback) runs inside the world tick,
\* never between two ticks and never on a context of its own.
C1_DeferredRunsInsideTick ==
    \A k \in 1..Len(log) : log[k].op = "fire" => log[k].ok

\* C2: a deferred removal that fires for a mob that is no longer in the world
\* does nothing: remove_mob is never applied to a mob that is not in the world.
C2_StaleRemovalIsNoOp ==
    (log # <<>> /\ log[1].op = "fire") =>
        \A k \in 1..Len(log) : log[k].op = "remove_mob" => log[k].ok

\* The first of the timers that are due, in the order they were started.
FirstDue(ts) == CHOOSE i \in 1..Len(ts) : ts[i].due = 0 /\ \A j \in 1..(i - 1) : ts[j].due # 0

\* C3: deferred actions fire in deadline order and, with equal deadlines, in
\* the order they were scheduled: the one that fires is the first started of
\* those that are due (so restore-Ready fires before the brick restore).
C3_FiresInSchedulingOrder ==
    [][Ran("fire") => timers' = RemoveAt(timers, FirstDue(timers))]_vars

\* A brick within SwitchRadius of the switch sw, from the level's geometry.
BrickNearSwitch(b, sw) ==
    /\ BlockKind(b) = "brick"
    /\ LET dx == Max0(Abs(LevelPos(b)[1] - LevelPos(sw)[1]) - BLOCK_SIZE \div 2)
           dy == Max0(Abs(LevelPos(b)[2] - LevelPos(sw)[2]) - BLOCK_SIZE \div 2)
       IN dx * dx + dy * dy <= SwitchRadius * SwitchRadius

\* C4: a player contact from Above with a Ready switch makes the switch
\* Cooling and removes, within that contact, exactly the bricks within radius
\* 60 of it: no other block and no brick outside the radius is removed.
C4_SwitchTriggerRemovesNearBricks ==
    [][\A sw \in BlockIds :
          (BlockKind(sw) = "switches" /\ active[sw] /\ RanFor("player_block", "player", sw, "A"))
          => /\ ~active'[sw]
             /\ \A b \in BlockIds :
                   blockIn'[b] <=> (blockIn[b] /\ ~BrickNearSwitch(b, sw))
             /\ \A b \in BlockIds :
                   Cardinality(CallsOf(log', "remove_block", b))
                       = IF blockIn[b] /\ BrickNearSwitch(b, sw) THEN 1 ELSE 0]_vars

\* C4 witness: the trigger has just removed the two near bricks and left the far one.
C4_Witness ==
    /\ log # <<>> /\ log[1].op = "player_block" /\ log[1].other = "sw" /\ log[1].dir = "A"
    /\ ~active["sw"]
    /\ ~blockIn["brickNear"] /\ ~blockIn["brickAlso"] /\ blockIn["brickFar"] /\ blockIn["sw"]
    /\ Cardinality(CallsOp(log, "remove_block")) = 2

\* C5: a player contact with a Cooling switch, from any direction, removes no
\* block, schedules nothing and leaves the switch Cooling.
C5_CoolingSwitchIgnoresContact ==
    [][\A sw \in BlockIds, dir \in Directions :
          (BlockKind(sw) = "switches" /\ ~active[sw] /\ RanFor("player_block", "player", sw, dir))
          => /\ ~active'[sw]
             /\ blockIn' = blockIn /\ blockPos' = blockPos
             /\ timers' = timers
             /\ Len(log') = 1]_vars

\* C5 witness: a contact from Above with the switch while it is Cooling and
\* its two timers are pending.
C5_Witness ==
    /\ log # <<>> /\ log[1].op = "player_block" /\ log[1].other = "sw" /\ log[1].dir = "A"
    /\ Len(log) = 1
    /\ ~active["sw"]
    /\ Len(timers) = 2 /\ timers[1].due < SwitchDelay

\* The timer that the step just taken ran, if it ran the i-th one.
Fired(i) == Ran("fire") /\ i \in 1..Len(timers) /\ timers[i].due = 0 /\ timers' = RemoveAt(timers, i)

\* C6: until the 10 time-units after a trigger have passed the switch is
\* Cooling and the bricks the trigger removed are absent; when they have
\* passed, the brick restore puts each of them back at the coordinates it had
\* (the level's) and the restore-Ready makes the switch Ready.
C6_SwitchRestoresAfterDelay ==
    /\ [](\A i \in 1..Len(timers) :
            (timers[i].fn = "blocks_recover" /\ timers[i].due > 0)
            => /\ ~active[timers[i].target]
               /\ \A k \in 1..Len(timers[i].bricks) : ~blockIn[timers[i].bricks[k].brick])
    /\ [][\A i \in 1..Len(timers) :
            /\ (Fired(i) /\ timers[i].fn = "blocks_recover")
               => \A k \in 1..Len(timers[i].bricks) :
                     LET b == timers[i].bricks[k].brick
                     IN blockIn'[b] /\ blockPos'[b] = LevelPos(b)
            /\ (Fired(i) /\ timers[i].fn = "set_active" /\ BlockKind(timers[i].target) = "switches")
               => active'[timers[i].target]]_vars

\* C6 witness: the brick restore has just put the two near bricks back and the
\* switch is Ready again.
C6_Witness ==
    /\ Len(log) = 3 /\ log[1].op = "fire" /\ log[1].arg = "blocks_recover"
    /\ log[2].op = "add_block" /\ log[3].op = "add_block"
    /\ blockIn["brickNear"] /\ blockPos["brickNear"] = LevelPos("brickNear")
    /\ blockIn["brickAlso"] /\ blockPos["brickAlso"] = LevelPos("brickAlso")
    /\ active["sw"]
    /\ timers = <<>>

\* C7: a bounce pad gives one impulse (player velocity (0, -400)) and starts
\* one revert per Idle-to-Bouncing transition; a contact from Above while it
\* is already Bouncing gives no impulse and starts no revert.
C7_OneImpulsePerBounce ==
    [][\A bp \in BlockIds :
          (BlockKind(bp) = "bounce" /\ RanFor("player_block", "player", bp, "A"))
          => IF ~active[bp]
             THEN /\ active'[bp]
                  /\ player'.vel = <<0, -400>>
                  /\ Cardinality(CallsOp(log', "set_velocity")) = 1
                  /\ Cardinality(CallsOp(log', "Timer")) = 1
             ELSE /\ CallsOp(log', "set_velocity") = {}
                  /\ timers' = timers]_vars

\* The pending removals of the mob m.
Removals(m) == {i \in 1..Len(timers) : timers[i].fn = "remove_mob" /\ timers[i].target = m}

\* C8: for a mushroom or gang at most one removal is ever scheduled: a contact
\* from Above after the first one schedules no further removal.
C8_AtMostOneRemovalScheduled ==
    \A m \in MobIds : Cardinality(Removals(m)) <= 1

\* C9: a contact from Left or Right of a player who is neither invincible nor
\* holds the shoot flag with an Alive mushroom or gang takes exactly 1 health,
\* sets the player's velocity to speed 50 horizontally, leaves the mob
\* unsquished with no removal scheduled, and negates the tempo of a mushroom
\* but not of a gang.
C9_SideContactDamagesPlayer ==
    [][\A m \in MobIds, dir \in {"L", "R"} :
          (/\ mobKind[m] \in {"mushroom", "gang"} /\ ~squished[m]
           /\ ~player.niubi /\ ~player.shoot
           /\ RanFor("player_mob", "player", m, dir))
          => /\ player'.health = player.health - 1
             /\ Abs(player'.vel[1]) = 50 /\ player'.vel[2] = 0
             /\ ~squished'[m]
             /\ mobIn'[m]
             /\ timers' = timers
             /\ tempo'[m] = IF mobKind[m] = "mushroom" THEN -tempo[m] ELSE tempo[m]]_vars

\* C9 witness: the gang has just hit the player from the left, after the
\* mushroom had hit the player and turned round.
C9_Witness ==
    /\ log # <<>> /\ log[1].op = "player_mob" /\ log[1].other = "g1" /\ log[1].dir = "L"
    /\ player.health = MaxHealth - 2
    /\ player.vel = <<-50, 0>>
    /\ tempo["m1"] = -MushroomTempo /\ tempo["g1"] = GangTempo
    /\ ~squished["m1"] /\ ~squished["g1"]
    /\ timers = <<>>

OnlyTempoOf(ms) ==
    /\ mobIn' = mobIn /\ mobKind' = mobKind /\ squished' = squished /\ mobVel' = mobVel
    /\ \A m \in MobIds \ ms : tempo'[m] = tempo[m]
    /\ blockIn' = blockIn /\ blockPos' = blockPos /\ active' = active /\ itemIn' = itemIn
    /\ player' = player /\ timers' = timers /\ level' = level /\ levelName' = levelName
    /\ scores' = scores

\* C12, as stated: when two mushrooms or two gangs collide, both negate their
\* tempo and neither is removed.
C12_SameKindBothReverse ==
    [][\A a \in MobIds, b \in MobIds :
          (/\ mobKind[a] = mobKind[b] /\ mobKind[a] \in {"mushroom", "gang"}
           /\ RanFor("mob_mob", a, b, ""))
          => /\ tempo'[a] = -tempo[a] /\ tempo'[b] = -tempo[b]
             /\ mobIn'[a] /\ mobIn'[b]]_vars

\* C12, as it holds: when two mushrooms collide both negate their tempo; when
\* two gangs collide neither tempo changes; in both cases neither mob is
\* removed and nothing else changes.
C12_MushroomsReverseGangsPass ==
    [][\A a \in MobIds, b \in MobIds :
          (/\ mobKind[a] = mobKind[b] /\ mobKind[a] \in {"mushroom", "gang"}
           /\ RanFor("mob_mob", a, b, ""))
          => /\ IF mobKind[a] = "mushroom"
                THEN tempo'[a] = -tempo[a] /\ tempo'[b] = -tempo[b]
                ELSE tempo'[a] = tempo[a] /\ tempo'[b] = tempo[b]
             /\ mobIn'[a] /\ mobIn'[b]
             /\ OnlyTempoOf({a, b})
             /\ CallsOp(log', "remove_mob") = {}]_vars

\* C12 witness: the two mushrooms have just collided and both walk the other
\* way; the two gangs have their tempo and all four are in the world.
C12_Witness ==
    /\ log # <<>> /\ log[1].op = "mob_mob" /\ log[1].arg = "m1" /\ log[1].other = "m2"
    /\ tempo["m1"] = -MushroomTempo /\ tempo["m2"] = -MushroomTempo
    /\ tempo["g1"] = GangTempo /\ tempo["g2"] = GangTempo
    /\ \A m \in {"m1", "m2", "g1", "g2"} : mobIn[m]

Squishable(kind) == kind \in {"mushroom", "gang"}

\* C13: in a mob-mob contact in which at least one of the two is not a
\* mushroom or gang (a fireball, a bullet, a cloud), in either order, both
\* mobs are removed from the world, each once, and the handler returns False.
C13_OtherPairsDestroyBoth ==
    [][\A a \in MobIds, b \in MobIds :
          (/\ ~Squishable(mobKind[a]) \/ ~Squishable(mobKind[b])
           /\ RanFor("mob_mob", a, b, ""))
          => /\ ~mobIn'[a] /\ ~mobIn'[b]
             /\ \A m \in MobIds \ {a, b} : mobIn'[m] = mobIn[m]
             /\ Cardinality(CallsOf(log', "remove_mob", a)) = 1
             /\ Cardinality(CallsOf(log', "remove_mob", b)) = 1
             /\ ret' = "False"]_vars

\* C13 witness: the mushroom has just run into a bullet flying right and both
\* are gone; the cloud and the fireball it dropped are gone too, the gang is not.
C13_Witness ==
    /\ log # <<>> /\ log[1].op = "mob_mob" /\ log[1].arg = "m1"
    /\ mobKind[log[1].other] = "bullet_r"
    /\ ~mobIn["m1"] /\ ~mobIn[log[1].other]
    /\ ~mobIn["c1"] /\ ~mobIn["f1"] /\ mobKind["f1"] = "fireball"
    /\ mobIn["g1"]
    /\ ret = "False"

\* C14: a contact between a mushroom and a gang, in either order, changes
\* nothing (no removal, no tempo, no velocity) and the handler returns False.
C14_MixedKindsIgnoreEachOther ==
    [][\A a \in MobIds, b \in MobIds :
          (/\ Squishable(mobKind[a]) /\ Squishable(mobKind[b]) /\ mobKind[a] # mobKind[b]
           /\ RanFor("mob_mob", a, b, ""))
          => /\ OnlyTempoOf({})
             /\ Len(log') = 1
             /\ ret' = "False"]_vars

\* C14 witness: a gang has just run into a mushroom that had turned round in
\* an earlier contact; both are still there.
C14_Witness ==
    /\ log # <<>> /\ log[1].op = "mob_mob" /\ log[1].arg = "g2" /\ log[1].other = "m1"
    /\ tempo["m1"] = -MushroomTempo /\ tempo["g2"] = GangTempo
    /\ mobIn["m1"] /\ mobIn["g2"]
    /\ ret = "False"

\* The step just taken loaded a level, or closed the window.
LoadedLevel == CallsOp(log', "reset_world") # {}

\* C15: a player contact with a flag from Above heals the player by 1 (as far
\* as max_health allows) and leaves the loaded world, the current level and the
\* score records as they are; a contact from another direction does not heal
\* (short of the restart of the game after its last level) and completes the
\* level: the score is recorded and a level is loaded or the window closed.
C15_FlagHealsFromAbove ==
    [][\A f \in BlockIds, dir \in Directions :
          (BlockKind(f) = "flag" /\ RanFor("player_block", "player", f, dir))
          => IF dir = "A"
             THEN /\ player'.health = IF player.health < MaxHealth
                                       THEN player.health + 1 ELSE player.health
                  /\ ~LoadedLevel /\ pc' = pc
                  /\ level' = level /\ levelName' = levelName /\ scores' = scores
                  /\ blockIn' = blockIn /\ mobIn' = mobIn /\ itemIn' = itemIn
             ELSE /\ player'.health = player.health \/ get_next_level(Cur) = "END"
                  /\ CallsOp(log', "update_score") # {}
                  /\ LoadedLevel \/ pc' = "closed"]_vars

\* C16: a player contact with a tunnel loads the next level if and only if
\* it is from Above and the ducking flag is set; otherwise nothing of the
\* world changes; either way the handler returns True.  The ducking flag is
\* set only while the player ducks: a contact that loads the next level finds
\* the down key held.
C16_TunnelNeedsDuckingPosture ==
    [][\A t \in BlockIds, dir \in Directions :
          (BlockKind(t) = "tunnel" /\ RanFor("player_block", "player", t, dir))
          => /\ LoadedLevel <=> (dir = "A" /\ player.duck)
             /\ ~LoadedLevel =>
                   /\ blockIn' = blockIn /\ blockPos' = blockPos /\ active' = active
                   /\ mobIn' = mobIn /\ itemIn' = itemIn /\ level' = level
                   /\ timers' = timers
             /\ ret' = "True"
             /\ LoadedLevel => keyDown]_vars

\* C17: a player contact with an item of any kind (coin, star, flower) calls
\* the item's collect once, with its effect on the player (score, invincible
\* flag and its timer, shoot flag), removes the item from the world once, and
\* the handler returns False.
C17_ItemCollectedOnce ==
    [][\A i \in ItemIds :
          RanFor("player_item", "player", i, "")
          => /\ Cardinality(CallsOf(log', "collect", i)) = 1
             /\ Cardinality(CallsOp(log', "collect")) = 1
             /\ Cardinality(CallsOf(log', "remove_item", i)) = 1
             /\ \A k \in CallsOp(log', "remove_item") : log'[k].arg = i /\ log'[k].ok
             /\ ~itemIn'[i]
             /\ \A j \in ItemIds \ {i} : itemIn'[j] = itemIn[j]
             /\ ret' = "False"
             /\ CASE ItemKind(i) = "coin" -> player'.score = player.score + 1
                  [] ItemKind(i) = "flower" -> player'.shoot
                  [] ItemKind(i) = "star" ->
                        /\ player'.niubi
                        /\ Len(timers') = Len(timers) + 1
                        /\ timers'[Len(timers')].fn = "set_niubi"]_vars

\* C17 witness: the flower has just been collected, after the coin and a star.
C17_Witness ==
    /\ log # <<>> /\ log[1].op = "player_item" /\ log[1].other = "flower1"
    /\ ~itemIn["flower1"] /\ ~itemIn["coin1"] /\ ~itemIn["star1"] /\ itemIn["star2"]
    /\ player.shoot /\ player.niubi /\ player.score = 1
    /\ ret = "False"

\* C18: the player is invincible for the full 10 time-units after every star
\* collected, a second star collected meanwhile included: while the timer of
\* a star has time left, the invincible flag is set.
C18_InvincibleForFullDuration ==
    \A i \in 1..Len(timers) :
        (timers[i].fn = "set_niubi" /\ timers[i].due > 0) => player.niubi

BouncePads == {b \in BlockIds : BlockKind(b) = "bounce"}

\* The pending reverts of the bounce pad bp.
Reverts(bp) ==
    {i \in 1..Len(timers) : timers[i].fn = "set_active" /\ timers[i].target = bp /\ ~timers[i].flag}

\* C19: a bounce pad that is Bouncing returns to Idle: while it is Bouncing a
\* revert is pending, the revert that fires makes it Idle, it is Bouncing
\* again only by a new contact from Above, and so a Bouncing pad is Idle
\* again after a while.
C19_BounceReturnsToIdle ==
    /\ [](\A bp \in BouncePads : active[bp] => Reverts(bp) # {})
    /\ [][\A bp \in BouncePads :
            /\ (\E i \in Reverts(bp) : Fired(i)) => ~active'[bp]
            /\ (~active[bp] /\ active'[bp]) => RanFor("player_block", "player", bp, "A")]_vars
    /\ \A bp \in BouncePads : active[bp] ~> ~active[bp]

\* C19 witness: the last revert has just fired and the pad is Idle.
C19_Witness ==
    /\ Len(log) = 1 /\ log[1].op = "fire" /\ log[1].arg = "set_active"
    /\ ~active["bnc"]
    /\ timers = <<>>
    /\ player.vel = <<0, -400>>

\* The steps of mobs that the step just taken made.
StepsOf(l) == {k \in 1..Len(l) : l[k].op = "step"}

\* Nothing but the velocity of the mobs in ms changed.
OnlyVelocityOf(ms) ==
    /\ mobIn' = mobIn /\ mobKind' = mobKind /\ squished' = squished /\ tempo' = tempo
    /\ \A m \in MobIds \ ms : mobVel'[m] = mobVel[m]
    /\ blockIn' = blockIn /\ blockPos' = blockPos /\ active' = active /\ itemIn' = itemIn
    /\ player' = player /\ timers' = timers /\ level' = level /\ levelName' = levelName
    /\ scores' = scores

\* C20, as stated: the step of a gang makes its horizontal velocity negative
\* when the player is to its left, positive when to its right, leaves it when
\* the player is level with it, leaves its vertical velocity, and changes
\* nothing else.
C20_GangSeeksPlayer ==
    [][\A k \in StepsOf(log') :
          LET m == log'[k].arg
              side == log'[k].dir
          IN mobKind[m] = "gang"
             => /\ CASE side = "left" -> mobVel'[m][1] < 0
                     [] side = "right" -> mobVel'[m][1] > 0
                     [] OTHER -> mobVel'[m][1] = mobVel[m][1]
                /\ mobVel'[m][2] = mobVel[m][2]
                /\ OnlyVelocityOf({log'[j].arg : j \in StepsOf(log')})]_vars

\* C20, as it holds: so it is for a gang that is not squished; the step of a
\* squished gang, which is in the world until its removal, makes its
\* horizontal velocity 0 when the player is to its left or right.
C20_AliveGangSeeksPlayer ==
    [][\A k \in StepsOf(log') :
          LET m == log'[k].arg
              side == log'[k].dir
          IN mobKind[m] = "gang"
             => /\ CASE side = "left" ->
                          IF squished[m] THEN mobVel'[m][1] = 0 ELSE mobVel'[m][1] < 0
                     [] side = "right" ->
                          IF squished[m] THEN mobVel'[m][1] = 0 ELSE mobVel'[m][1] > 0
                     [] OTHER -> mobVel'[m][1] = mobVel[m][1]
                /\ mobVel'[m][2] = mobVel[m][2]
                /\ OnlyVelocityOf({log'[j].arg : j \in StepsOf(log')})]_vars

\* C20 witness: the gang, thrown up to the right by the cube, has just stepped
\* with the player on its left: it flies on upwards, now leftwards.
C20_Witness ==
    /\ log # <<>> /\ log[1].op = "step" /\ log[1].arg = "g1" /\ log[1].dir = "left"
    /\ mobIn["g1"] /\ ~squished["g1"]
    /\ mobVel["g1"] = <<GangTempo, -350>>

\* C21: handling a player contact with a flag or a tunnel never raises: in
\* every state the application reaches (a level loaded by File > Load Level
\* that the configuration does not name, a cancelled Load Level dialog, a
\* tunnel in a level whose goal is END), the handler returns True.
C21_FlagAndTunnelNeverRaise ==
    [][\A b \in BlockIds, dir \in Directions :
          (BlockKind(b) \in {"flag", "tunnel"} /\ RanFor("player_block", "player", b, dir))
          => ret' = "True"]_vars

\* The state of the entities: the active flags of switches and bounce pads,
\* the squished flag and tempo of the mobs, the player's flags and velocity,
\* and what is in the world.
EntityState ==
    <<active, squished, tempo, mobKind, mobVel, blockIn, blockPos, mobIn, itemIn,
      player.niubi, player.duck, player.shoot, player.jumping, player.vel>>

\* C22: the state of the entities changes only during a tick: no step taken
\* between the end of one MarioApp.step and the start of the next (a Timer
\* callback, a key-press handler) changes it.
C22_EntitiesChangeOnlyInTick ==
    [][(pc = "idle" /\ pc' = "idle") => EntityState' = EntityState]_vars

\* C23: no step taken during a tick (a collision handler, the end of
\* MarioApp.step) performs a presentation action: none calls update_score
\* with its name dialog, writes the high-score file or destroys the window.
C23_TickOnlySignals ==
    [][pc = "tick" =>
          /\ CallsOp(log', "update_score") = {}
          /\ scores' = scores
          /\ pc' # "closed"]_vars

\* C24: shoot() adds a bullet to the world only if the player's shoot flag is
\* true (BulletRight when the horizontal velocity is >= 0, BulletLeft
\* otherwise); the flag is false at the start and becomes true only when a
\* flower is collected.
C24_ShootNeedsCapability ==
    [][/\ \A k \in BulletIds :
             (~mobIn[k] /\ mobIn'[k])
             => /\ player.shoot
                /\ mobKind'[k] = IF player.vel[1] >= 0 THEN "bullet_r" ELSE "bullet_l"
       /\ (~player.shoot /\ player'.shoot)
             => \E i \in ItemIds :
                   ItemKind(i) = "flower" /\ RanFor("player_item", "player", i, "")]_vars

\* The file has a World and a Player section, read after their headings, with
\* every setting load_config reads and a number where it converts one.
ConfigAccepted(lines) ==
    /\ read_config(lines).raised = "none"
    /\ \A k \in 1..Len(Settings) : SettingRaises(read_config(lines).config, Settings[k]) = "none"

\* C25: if the configuration file chosen is invalid in any way (an attribute
\* line before any heading, no World or Player section, a missing key, a value
\* that is no number), load_config shows the error message and destroys the
\* window, no exception leaves the construction, and no world is built.
C25_InvalidConfigExitsCleanly ==
    [][(Ran("__init__") /\ ~ConfigAccepted(config))
          => /\ CallsOp(log', "showerror") # {}
             /\ CallsOp(log', "destroy") # {}
             /\ pc' = "closed"
             /\ ret' = "none"
             /\ CallsOp(log', "reset_world") = {}
             /\ \A b \in BlockIds : ~blockIn'[b]]_vars

Bricks == {b \in BlockIds : BlockKind(b) = "brick"}

\* The places of the brick b in the brick lists of the pending restores
Restores(b) ==
    {<<i, k>> \in (1..Len(timers)) \X (1..Cardinality(Bricks)) :
        /\ timers[i].fn = "blocks_recover"
        /\ k <= Len(timers[i].bricks)
        /\ timers[i].bricks[k].brick = b}

\* C26: whatever the interleaving of switch triggers (two switches with a
\* brick in the radius of both), projectile hits and restores, every brick is
\* in the world at most once: no add_block of a brick that is in the world,
\* no remove_block of one that is not, and every brick removed by a switch is
\* in exactly one pending restore, absent until that restore adds it again,
\* once.
C26_BrickPresentAtMostOnce ==
    /\ [](\A b \in Bricks :
             /\ Cardinality(Restores(b)) <= 1
             /\ Restores(b) # {} => ~blockIn[b])
    /\ [][/\ \A k \in 1..Len(log') :
               log'[k].op \in {"add_block", "remove_block"} => log'[k].ok
          /\ \A b \in Bricks :
               /\ (Ran("player_block") /\ CallsOf(log', "remove_block", b) # {})
                     => Cardinality(Restores(b)') = 1
               /\ (Restores(b) # {} /\ Restores(b)' = {})
                     => /\ Ran("fire")
                        /\ Cardinality(CallsOf(log', "add_block", b)) = 1
                        /\ blockIn'[b]
               /\ CallsOf(log', "add_block", b) # {}
                     => Restores(b) # {} /\ Restores(b)' = {}]_vars

\* C26 witness: the brick in the radius of both switches has just been
\* restored by the switch that removed it, while the other switch, triggered
\* in between, still waits for its own restore.
C26_Witness ==
    /\ log # <<>> /\ log[1].op = "fire"
    /\ CallsOf(log, "add_block", "brickNear") # {}
    /\ blockIn["brickNear"]
    /\ ~active["sw"] /\ ~active["sw2"]
    /\ \E i \in 1..Len(timers) : timers[i].fn = "blocks_recover" /\ timers[i].target = "sw2"

\* C27: a mushroom or gang that is squished stays squished, with tempo 0,
\* through every later contact (with the player from a side, with a block,
\* with another mob) for as long as its world lasts; one that is not squished
\* has tempo +30 or -30 (mushroom), -80 (gang).
C27_SquishedIsAbsorbing ==
    /\ [](\A m \in LevelMobs :
             Squishable(mobKind[m]) =>
                IF squished[m] THEN tempo[m] = 0
                ELSE IF mobKind[m] = "mushroom" THEN tempo[m] \in {MushroomTempo, -MushroomTempo}
                ELSE tempo[m] = GangTempo)
    /\ [][\A m \in LevelMobs :
             (Squishable(mobKind[m]) /\ squished[m] /\ ~LoadedLevel)
             => squished'[m] /\ tempo'[m] = 0]_vars

\* C27 witness: a squished mushroom, still in the world, has just met the
\* other mushroom, which runs on.
C27_Witness ==
    /\ log # <<>> /\ log[1].op = "mob_mob" /\ log[1].arg = "m1" /\ log[1].other = "m2"
    /\ mobIn["m1"] /\ squished["m1"] /\ tempo["m1"] = 0
    /\ mobIn["m2"] /\ ~squished["m2"] /\ tempo["m2"] = -MushroomTempo

\* C28: a squished mushroom or gang, while it waits to be removed, does not
\* harm the player: a contact with it from the Left or Right leaves the
\* player's health and velocity as they are.
C28_SquishedMobIsHarmless ==
    [][\A m \in LevelMobs, dir \in {"L", "R"} :
          (Squishable(mobKind[m]) /\ squished[m] /\ RanFor("player_mob", "player", m, dir))
          => player'.health = player.health /\ player'.vel = player.vel]_vars

\* C29: a contact of the player with a mob has exactly one of three
\* outcomes, in this order of precedence: the player being invincible, the
\* mob is removed and the player's health, velocity and shoot flag stay as
\* they are; otherwise, the shoot flag being set, it is cleared and neither
\* the mob nor the player's health changes; otherwise the mob's own on_hit
\* runs (a mushroom is squished from Above and costs 1 health from a side).
\* The handler returns True in each case.
C29_InvincibleThenShootThenOnHit ==
    [][\A m \in LevelMobs, dir \in Directions :
          RanFor("player_mob", "player", m, dir)
          => /\ ret' = "True"
             /\ IF player.niubi
                THEN /\ ~mobIn'[m]
                     /\ Cardinality(CallsOf(log', "remove_mob", m)) = 1
                     /\ player' = player
                     /\ squished' = squished /\ tempo' = tempo /\ timers' = timers
                ELSE IF player.shoot
                THEN /\ player' = [player EXCEPT !.shoot = FALSE]
                     /\ mobIn' = mobIn /\ squished' = squished /\ tempo' = tempo
                     /\ timers' = timers
                ELSE /\ mobIn' = mobIn
                     /\ player'.shoot = player.shoot /\ player'.niubi = player.niubi
                     /\ dir = "A" => squished'[m] /\ player'.health = player.health
                     /\ dir \in {"L", "R"} => player'.health = player.health - 1
                     /\ dir = "B" => player' = player /\ squished' = squished]_vars

\* C29 witness: the player, invincible and able to shoot, has just met the
\* mushroom: it is gone and the player has kept the shoot flag.
C29_Witness ==
    /\ log # <<>> /\ log[1].op = "player_mob" /\ log[1].other = "m1"
    /\ ret = "True"
    /\ player.niubi /\ player.shoot /\ player.health = MaxHealth
    /\ ~mobIn["m1"]

\* C30: the current-level name of the application is the name of the level
\* file its world was loaded from, after every operation that changes the
\* level (flag, tunnel, File > Load Level and its cancelled dialog, reset,
\* restart).
C30_LevelNameIsLoadedLevel == levelName = level.file

\* The step just taken is a contact of the player with a block from Above.
LandedOnBlock == \E b \in BlockIds : RanFor("player_block", "player", b, "A")

\* C31: no double jump.  The jumping flag is true once the application is
\* constructed; only a contact of the player with a block from Above clears
\* it; the flag is set, with the velocity (0, -200), only by a jump request
\* made between two steps while it is false; and a jump request made while
\* it is true changes nothing of the player or the world.  Hence a contact
\* from Above lies between any two jumps that take effect.
C31_NoDoubleJump ==
    [][/\ (pc = "start" /\ pc' = "idle") => player'.jumping
       /\ (player.jumping /\ ~player'.jumping) => LandedOnBlock
       /\ (~player.jumping /\ player'.jumping)
            => pc = "idle" /\ KeyJump /\ player'.vel = <<0, -200>>
       /\ (KeyJump /\ player.jumping) => EntityState' = EntityState /\ player' = player
      ]_vars

\* C31 witness: the player, having landed on a block, has just jumped: the
\* flag is set again and the velocity is that of the jump.
C31_Witness ==
    /\ pc = "idle"
    /\ log = <<Call("set_velocity", "player", TRUE)>>
    /\ player.jumping /\ player.vel = <<0, -200>>

\* What the code keeps of the mob m
MobState(m) == <<mobIn[m], mobKind[m], tempo[m], squished[m], mobVel[m]>>

\* C32: a contact of a mob with a block returns True and removes no mob that
\* is not a projectile.  A mushroom has its tempo negated by a contact from
\* the Left or Right and is unchanged by one from Above or Below; a gang is
\* given the velocity (50, -350) from the Right and (-50, -350) from the Left
\* and is unchanged otherwise; no other mob changes.  A block leaves the
\* world only if the mob is a projectile and the block a brick, and then it
\* is the block of the contact.
C32_MobMeetsBlock ==
    [][\A m \in MobIds, b \in BlockIds, dir \in Directions :
          RanFor("mob_block", m, b, dir)
          => /\ ret' = "True"
             /\ \A n \in MobIds :
                   (n # m \/ ~IsProjectile(mobKind[m])) => mobIn'[n] = mobIn[n]
             /\ \A n \in MobIds \ {m} : MobState(n)' = MobState(n)
             /\ mobKind[m] = "mushroom"
                   => IF dir \in {"L", "R"}
                      THEN /\ tempo'[m] = -tempo[m]
                           /\ squished'[m] = squished[m] /\ mobVel'[m] = mobVel[m]
                      ELSE MobState(m)' = MobState(m)
             /\ mobKind[m] = "gang"
                   => CASE dir = "R" -> /\ mobVel'[m] = <<50, -350>>
                                        /\ tempo'[m] = tempo[m] /\ squished'[m] = squished[m]
                        [] dir = "L" -> /\ mobVel'[m] = <<-50, -350>>
                                        /\ tempo'[m] = tempo[m] /\ squished'[m] = squished[m]
                        [] OTHER -> MobState(m)' = MobState(m)
             /\ \A c \in BlockIds :
                   blockIn'[c] # blockIn[c]
                   => c = b /\ ~blockIn'[c] /\ IsProjectile(mobKind[m]) /\ BlockKind(b) = "brick"
             /\ player' = player /\ timers' = timers]_vars

\* C32 witness: the mushroom, running right, has just met the cube from the
\* Left: it runs left now, and the cube and the brick are in the world.
C32_Witness ==
    /\ log # <<>> /\ log[1].op = "mob_block" /\ log[1].arg = "m1"
    /\ log[1].other = "cube" /\ log[1].dir = "L"
    /\ ret = "True"
    /\ mobIn["m1"] /\ ~squished["m1"] /\ tempo["m1"] = -MushroomTempo
    /\ blockIn["cube"] /\ blockIn["brickFar"]

\* The scores of the records s, in ascending order
RECURSIVE Ascending(_)
Ascending(s) ==
    IF s = <<>> THEN <<>>
    ELSE LET k == CHOOSE k \in 1..Len(s) : \A j \in 1..Len(s) : s[k] <= s[j]
         IN <<s[k]>> \o Ascending(RemoveAt(s, k))

ScoresOf(records) == [k \in 1..Len(records) |-> records[k].score]

\* The TopScores highest of the scores s
Highest(s) ==
    LET a == Ascending(s)
    IN IF Len(a) <= TopScores THEN a ELSE SubSeq(a, Len(a) - TopScores + 1, Len(a))

\* update_score has just run to its end on a file that can be read.
ScoreRecorded ==
    /\ CallsOf(log', "update_score", levelName) # {}
    /\ \A k \in CallsOf(log', "update_score", levelName) : log'[k].ok
    /\ Readable(scores)

\* C33: after update_score the high-score list of the current level, as
\* read_score reads it, has at most 10 entries and holds the 10 highest of
\* the scores it held before and the player's score (the new score is
\* appended to fewer than 10 entries, and replaces the lowest of 10 exactly
\* when it is strictly greater); the records of the other levels are
\* unchanged.
C33_TopTenScoresKept ==
    [][ScoreRecorded
       => /\ Readable(scores')
          /\ Len(scores'[levelName]) <= TopScores
          /\ Ascending(ScoresOf(read_score(scores')[levelName]))
               = Highest(Append(ScoresOf(read_score(scores)[levelName]), player.score))
          /\ \A n \in DOMAIN scores \ {levelName} :
                read_score(scores')[n] = read_score(scores)[n]]_vars

====
